---- MODULE Spec2Model ----
(***************************************************************************)
(* The array functions of                                                  *)
(* datafusion/physical-expr/src/array_expressions.rs as a state machine.   *)
(*                                                                         *)
(* Every function is a pure, synchronous transformation of its argument    *)
(* columns.  The state is one invocation made by the dispatcher: the       *)
(* function invoked (fn), its argument columns (args) and what the call    *)
(* returned (result, Pending until the function has run).  Init draws the  *)
(* invocation from bounded sets of columns; there is one action per        *)
(* function, which runs the whole function on args.                        *)
(*                                                                         *)
(* Row and element positions are 0-based in the operators, as in the Rust  *)
(* source; TLA+ sequences are 1-based, so an access to position i of a     *)
(* buffer reads s[i + 1].                                                  *)
(***************************************************************************)
EXTENDS Integers, Sequences, FiniteSets, TLC

VARIABLES fn, args, result

vars == <<fn, args, result>>

(***************************************************************************)
(* Bounds of the model.                                                    *)
(***************************************************************************)
\* The largest number of rows of an input column.
MaxRows == 2
\* The largest length of the values buffer of an input list column.
MaxVals == 5
\* The largest number of elements of a row given to the set, search and range
\* functions.
MaxElems == 2
\* The number of bits of usize and i64 in the model, standing for 64: wide
\* enough that no length or count of the model comes near the largest value.
UsizeBits == 16

(***************************************************************************)
(* Small helpers.                                                          *)
(***************************************************************************)
Max(a, b) == IF a >= b THEN a ELSE b
Min(a, b) == IF a <= b THEN a ELSE b
Last(s) == s[Len(s)]

\* Option<T>: None is the empty sequence, Some(v) the one-element sequence.
None == <<>>
Some(v) == <<v>>

(***************************************************************************)
(* Data types.  A DataType is a sequence of tags: a leaf type, preceded by *)
(* one "List" per nesting level.                                           *)
(***************************************************************************)
Int64 == <<"Int64">>
UInt64 == <<"UInt64">>
Utf8 == <<"Utf8">>
Boolean == <<"Boolean">>
NullType == <<"Null">>
ListOf(t) == <<"List">> \o t
IsListType(t) == t[1] = "List"

(***************************************************************************)
(* Arrays.  A primitive array is its data type and a sequence of optional  *)
(* values (None: a null slot).  A ListArray is its data type, its offsets  *)
(* (row_count + 1 entries), its child values array and one validity flag   *)
(* per row (TRUE: the row is valid; an absent null buffer is all TRUE).    *)
(***************************************************************************)
PrimArray(dt, vals) == [dt |-> dt, vals |-> vals]
MkList(item_dt, offsets, values, valid) ==
    [dt |-> ListOf(item_dt), offsets |-> offsets, values |-> values, valid |-> valid]
IsListArr(a) == IsListType(a.dt)
IsNullArr(a) == a.dt = NullType
ArrLen(a) == IF IsListArr(a) THEN Len(a.offsets) - 1 ELSE Len(a.vals)
\* GenericListArray::value_type
value_type(a) == Tail(a.dt)
AllValid(n) == [i \in 1..n |-> TRUE]

\* Array::is_null(i) of a list array or a primitive array.
is_null(a, i) == IF IsListArr(a) THEN ~a.valid[i + 1] ELSE a.vals[i + 1] = None

RECURSIVE EmptyArr(_)
\* new_empty_array(data_type)
EmptyArr(dt) ==
    IF IsListType(dt)
    THEN [dt |-> dt, offsets |-> <<0>>, values |-> EmptyArr(Tail(dt)), valid |-> <<>>]
    ELSE [dt |-> dt, vals |-> <<>>]

RECURSIVE SliceArr(_, _, _)
\* Array::slice(start, len): rows start .. start+len-1, offsets rebased to 0.
SliceArr(a, start, len) ==
    IF IsListArr(a)
    THEN LET lo == a.offsets[start + 1]
             hi == a.offsets[start + len + 1]
         IN  [dt |-> a.dt,
              offsets |-> [k \in 1..(len + 1) |-> a.offsets[start + k] - lo],
              values |-> SliceArr(a.values, lo, hi - lo),
              valid |-> SubSeq(a.valid, start + 1, start + len)]
    ELSE [dt |-> a.dt, vals |-> SubSeq(a.vals, start + 1, start + len)]

RECURSIVE ConcatArr(_, _)
\* compute::concat of two arrays of one data type.
ConcatArr(a, b) ==
    IF IsListArr(a)
    THEN LET av == SliceArr(a.values, a.offsets[1], Last(a.offsets) - a.offsets[1])
             bv == SliceArr(b.values, b.offsets[1], Last(b.offsets) - b.offsets[1])
             alen == Last(a.offsets) - a.offsets[1]
         IN  [dt |-> a.dt,
              offsets |-> [k \in 1..Len(a.offsets) |-> a.offsets[k] - a.offsets[1]]
                          \o [k \in 1..(Len(b.offsets) - 1) |->
                                  b.offsets[k + 1] - b.offsets[1] + alen],
              values |-> ConcatArr(av, bv),
              valid |-> a.valid \o b.valid]
    ELSE [dt |-> a.dt, vals |-> a.vals \o b.vals]

\* GenericListArray::value(i): the child values of row i, whatever its validity.
value(list_array, i) ==
    SliceArr(list_array.values, list_array.offsets[i + 1],
             list_array.offsets[i + 2] - list_array.offsets[i + 1])

RECURSIVE Elems(_)
\* What an array holds, whatever its buffers: per slot None for a null, else
\* Some(v), where the v of a list row is what the row holds.  Two arrays are
\* equal (ArrayData's PartialEq) when they hold the same.
Elems(a) ==
    IF IsListArr(a)
    THEN [i \in 1..ArrLen(a) |-> IF a.valid[i] THEN Some(Elems(value(a, i - 1))) ELSE None]
    ELSE a.vals

(***************************************************************************)
(* MutableArrayData: the scratch buffer is the array built so far.         *)
(***************************************************************************)
\* MutableArrayData::extend(index, start, end) with `source` = arrays[index].
extend(mutable, source, start, end) == ConcatArr(mutable, SliceArr(source, start, end - start))

RECURSIVE NullsArr(_, _)
\* new_null_array(data_type, n)
NullsArr(dt, n) ==
    IF IsListType(dt)
    THEN [dt |-> dt, offsets |-> [k \in 1..(n + 1) |-> 0],
          values |-> EmptyArr(Tail(dt)), valid |-> [k \in 1..n |-> FALSE]]
    ELSE [dt |-> dt, vals |-> [k \in 1..n |-> None]]

\* MutableArrayData::extend_nulls(n)
extend_nulls(mutable, n) == ConcatArr(mutable, NullsArr(mutable.dt, n))

(***************************************************************************)
(* Results.  A call returns a column, or an error of one of DataFusion's   *)
(* kinds, or aborts by panic.                                              *)
(***************************************************************************)
Pending == [kind |-> "pending"]
Ok(col) == [kind |-> "ok", col |-> col]
\* plan_err!, exec_err!, internal_err!, not_impl_err!, and an ArrowError passed on by `?`
Err(kind, msg) == [kind |-> kind, msg |-> msg]
Panic(msg) == [kind |-> "panic", msg |-> msg]

\* OffsetBuffer::new: panics unless the offsets are non-empty, start >= 0 and monotonic.
OffsetsOk(offsets) ==
    /\ Len(offsets) >= 1
    /\ offsets[1] >= 0
    /\ \A k \in 1..(Len(offsets) - 1) : offsets[k] <= offsets[k + 1]

\* ListArray::try_new(field, OffsetBuffer::new(offsets), values, nulls)
try_new(item_dt, offsets, values, valid) ==
    IF ~OffsetsOk(offsets) THEN Panic("offsets")
    ELSE IF Last(offsets) > ArrLen(values) THEN Err("arrow", "Max offset exceeds length of values")
    ELSE IF Len(valid) # Len(offsets) - 1 THEN Err("arrow", "Incorrect length of null buffer")
    ELSE IF values.dt # item_dt THEN Err("arrow", "ListArray expected data type")
    ELSE Ok(MkList(item_dt, offsets, values, valid))

\* as_list_array / as_int64_array: a failed downcast is an internal error.
CastErr == Err("internal", "could not cast")

(***************************************************************************)
(* array_element                                                           *)
(***************************************************************************)
adjusted_array_index(index, len) ==
    LET adjusted_zero_index == IF index < 0 THEN index + len ELSE index - 1
    IN  IF 0 <= adjusted_zero_index /\ adjusted_zero_index < len
        THEN Some(adjusted_zero_index)
        ELSE None

RECURSIVE array_element_rows(_, _, _, _)
\* The loop over list_array.offsets().windows(2), from row row_index on.
array_element_rows(list_array, indexes, row_index, mutable) ==
    IF row_index >= ArrLen(list_array) THEN mutable
    ELSE LET start == list_array.offsets[row_index + 1]
             end == list_array.offsets[row_index + 2]
             len == end - start
             index == adjusted_array_index(indexes.vals[row_index + 1][1], len)
             next == IF len = 0 THEN extend_nulls(mutable, 1)
                     ELSE IF index # None
                          THEN extend(mutable, list_array.values,
                                      start + index[1], start + index[1] + 1)
                          ELSE extend_nulls(mutable, 1)
         IN  array_element_rows(list_array, indexes, row_index + 1, next)

array_element(a) ==
    IF ~IsListArr(a[1]) \/ a[2].dt # Int64 THEN CastErr
    ELSE Ok(array_element_rows(a[1], a[2], 0, EmptyArr(value_type(a[1]))))

(***************************************************************************)
(* array_slice, array_pop_back, array_pop_front                            *)
(***************************************************************************)
\* Mutant: a positive `from` taken as 0-based (the `- 1` lost).
adjusted_from_index_zero_based(index, len) ==
    LET adjusted_zero_index == IF index < 0 THEN index + len ELSE Max(index, 0)
    IN  IF 0 <= adjusted_zero_index /\ adjusted_zero_index < len
        THEN Some(adjusted_zero_index)
        ELSE None

\* Mutant: a negative `from` counted from one place further left.
adjusted_from_index_shifted(index, len) ==
    LET adjusted_zero_index == IF index < 0 THEN index + len - 1 ELSE Max(index - 1, 0)
    IN  IF 0 <= adjusted_zero_index /\ adjusted_zero_index < len
        THEN Some(adjusted_zero_index)
        ELSE None

adjusted_from_index(index, len) ==
    LET adjusted_zero_index == IF index < 0 THEN index + len ELSE Max(index - 1, 0)
    IN  IF 0 <= adjusted_zero_index /\ adjusted_zero_index < len
        THEN Some(adjusted_zero_index)
        ELSE None

\* Mutant: a negative `to` taken as inclusive (the `- 1` lost).
adjusted_to_index_inclusive(index, len) ==
    LET adjusted_zero_index == IF index < 0 THEN index + len ELSE Min(index - 1, len - 1)
    IN  IF 0 <= adjusted_zero_index /\ adjusted_zero_index < len
        THEN Some(adjusted_zero_index)
        ELSE None

adjusted_to_index(index, len) ==
    LET adjusted_zero_index == IF index < 0 THEN index + len - 1 ELSE Min(index - 1, len - 1)
    IN  IF 0 <= adjusted_zero_index /\ adjusted_zero_index < len
        THEN Some(adjusted_zero_index)
        ELSE None

RECURSIVE array_slice_rows(_, _, _, _, _)
\* The loop of array_slice; st is [mutable, offsets, panic].
array_slice_rows(list_array, from_array, to_array, row_index, st) ==
    IF row_index >= ArrLen(list_array) \/ st.panic THEN st
    ELSE LET start == list_array.offsets[row_index + 1]
             end == list_array.offsets[row_index + 2]
             len == end - start
             from_index == IF is_null(from_array, row_index) THEN Some(0)
                           ELSE adjusted_from_index(from_array.vals[row_index + 1][1], len)
             to_index == IF is_null(to_array, row_index) THEN Some(len - 1)
                         ELSE adjusted_to_index(to_array.vals[row_index + 1][1], len)
             last == st.offsets[row_index + 1]
             empty == [st EXCEPT !.offsets = Append(st.offsets, last)]
             next == IF len = 0 THEN empty
                     ELSE IF from_index # None /\ to_index # None
                          THEN IF from_index[1] <= to_index[1]
                               THEN IF ~(start + to_index[1] <= end)
                                    THEN [st EXCEPT !.panic = TRUE]
                                    ELSE [st EXCEPT
                                            !.mutable = extend(st.mutable, list_array.values,
                                                               start + from_index[1],
                                                               start + to_index[1] + 1),
                                            !.offsets = Append(st.offsets,
                                                last + (to_index[1] - from_index[1] + 1))]
                               ELSE empty
                          ELSE empty
         IN  array_slice_rows(list_array, from_array, to_array, row_index + 1, next)

array_slice(a) ==
    IF ~IsListArr(a[1]) \/ a[2].dt # Int64 \/ a[3].dt # Int64 THEN CastErr
    ELSE LET st == array_slice_rows(a[1], a[2], a[3], 0,
                       [mutable |-> EmptyArr(value_type(a[1])), offsets |-> <<0>>,
                        panic |-> FALSE])
         IN  IF st.panic THEN Panic("assertion failed: start + to as usize <= end")
             ELSE try_new(value_type(a[1]), st.offsets, st.mutable, AllValid(ArrLen(a[1])))

\* list_array.iter().map(|arr| arr.map_or(0, |arr| arr.len() as i64 + delta))
pop_to_array(list_array, delta) ==
    PrimArray(Int64,
        [i \in 1..ArrLen(list_array) |->
            IF is_null(list_array, i - 1) THEN Some(0)
            ELSE Some(ArrLen(value(list_array, i - 1)) + delta)])

array_pop_back(a) ==
    IF ~IsListArr(a[1]) THEN CastErr
    ELSE array_slice(<<a[1],
                       PrimArray(Int64, [i \in 1..ArrLen(a[1]) |-> Some(1)]),
                       pop_to_array(a[1], -1)>>)

array_pop_front(a) ==
    IF ~IsListArr(a[1]) THEN CastErr
    ELSE array_slice(<<a[1],
                       PrimArray(Int64, [i \in 1..ArrLen(a[1]) |-> Some(2)]),
                       pop_to_array(a[1], 0)>>)

(***************************************************************************)
(* Arrow kernels used by the construction and concatenation functions.     *)
(***************************************************************************)
RECURSIVE from_lengths(_)
\* OffsetBuffer::from_lengths
from_lengths(lengths) ==
    IF lengths = <<>> THEN <<0>>
    ELSE LET prefix == from_lengths(SubSeq(lengths, 1, Len(lengths) - 1))
         IN  Append(prefix, Last(prefix) + Last(lengths))

RECURSIVE ConcatSeq(_)
ConcatSeq(arrays) ==
    IF Len(arrays) = 1 THEN arrays[1]
    ELSE ConcatArr(ConcatSeq(SubSeq(arrays, 1, Len(arrays) - 1)), Last(arrays))

\* compute::concat(&[..]): an error on no array and on arrays of different types.
concat(arrays) ==
    IF Len(arrays) = 0
    THEN Err("arrow", "concat requires input of at least one array")
    ELSE IF \E k \in 1..Len(arrays) : arrays[k].dt # arrays[1].dt
    THEN Err("arrow", "It is not possible to concatenate arrays of different data types.")
    ELSE Ok(ConcatSeq(arrays))

\* ListArray::new: try_new(..).unwrap()
ListArray_new(item_dt, offsets, values, valid) ==
    LET r == try_new(item_dt, offsets, values, valid)
    IN  IF r.kind = "ok" THEN r ELSE Panic(r.msg)

(***************************************************************************)
(* check_datatypes, make_array                                              *)
(***************************************************************************)
\* check_datatypes with the last argument's type as the reference type.
check_datatypes_last_reference(name, arrs) ==
    IF \A k \in 1..Len(arrs) : arrs[k].dt = arrs[Len(arrs)].dt \/ arrs[k].dt = NullType
    THEN Ok(<<>>)
    ELSE Err("plan", name \o " received incompatible types")

\* Ok(()) unless some argument is neither of the first argument's type nor Null.
check_datatypes(name, arrs) ==
    IF \A k \in 1..Len(arrs) : arrs[k].dt = arrs[1].dt \/ arrs[k].dt = NullType
    THEN Ok(<<>>)
    ELSE Err("plan", name \o " received incompatible types")

RECURSIVE array_array_row(_, _, _, _)
\* The inner loop of array_array: one slot per argument for row row_idx.
array_array_row(a, row_idx, arr_idx, mutable) ==
    IF arr_idx = Len(a) THEN mutable
    ELSE LET arg == a[arr_idx + 1]
         IN  array_array_row(a, row_idx, arr_idx + 1,
                 IF ~IsNullArr(arg) /\ ~is_null(arg, row_idx)
                 THEN extend(mutable, arg, row_idx, row_idx + 1)
                 ELSE extend_nulls(mutable, 1))

RECURSIVE array_array_rows(_, _, _)
\* The outer loop of array_array; st is <<mutable, offsets>> so far.
array_array_rows(a, row_idx, st) ==
    IF row_idx = ArrLen(a[1]) THEN st
    ELSE LET mutable == array_array_row(a, row_idx, 0, st.mutable)
         IN  array_array_rows(a, row_idx + 1,
                 [mutable |-> mutable, offsets |-> Append(st.offsets, ArrLen(mutable))])

array_array(a, data_type) ==
    IF Len(a) = 0 THEN Err("plan", "Array requires at least one argument")
    ELSE IF \E k \in 1..Len(a) : ~IsNullArr(a[k]) /\ a[k].dt # data_type
    THEN Panic("Arrays with inconsistent types passed to MutableArrayData")
    ELSE LET st == array_array_rows(a, 0, [mutable |-> EmptyArr(data_type), offsets |-> <<0>>])
         IN  try_new(data_type, st.offsets, st.mutable, AllValid(Len(st.offsets) - 1))

\* datafusion_common::utils::array_into_list_array: the whole array as one list row.
array_into_list_array(arr) == MkList(arr.dt, <<0, ArrLen(arr)>>, arr, <<TRUE>>)

\* The data type of the first argument that is not Null, else Null.
make_array_data_type(arrays) ==
    IF \A k \in 1..Len(arrays) : IsNullArr(arrays[k]) THEN NullType
    ELSE arrays[CHOOSE k \in 1..Len(arrays) :
                    /\ ~IsNullArr(arrays[k])
                    /\ \A j \in 1..(k - 1) : IsNullArr(arrays[j])].dt

make_array(arrays) ==
    LET data_type == make_array_data_type(arrays)
    IN  IF data_type = NullType
        THEN Ok(array_into_list_array(NullsArr(NullType, Len(arrays))))
        ELSE array_array(arrays, data_type)

(***************************************************************************)
(* array_append, array_prepend                                             *)
(***************************************************************************)
RECURSIVE general_append_and_prepend_rows_stale(_, _, _, _, _)
\* The loop of general_append_and_prepend with the row's span grown by end - start
\* only: the offsets do not count the added element.
general_append_and_prepend_rows_stale(list_array, element_array, is_append, row_index, st) ==
    IF row_index = ArrLen(list_array) THEN st
    ELSE LET start == list_array.offsets[row_index + 1]
             end == list_array.offsets[row_index + 2]
             mutable ==
                 IF is_append
                 THEN extend(extend(st.mutable, list_array.values, start, end),
                             element_array, row_index, row_index + 1)
                 ELSE extend(extend(st.mutable, element_array, row_index, row_index + 1),
                             list_array.values, start, end)
         IN  general_append_and_prepend_rows_stale(
                 list_array, element_array, is_append, row_index + 1,
                 [mutable |-> mutable,
                  offsets |-> Append(st.offsets, st.offsets[row_index + 1] + (end - start))])

RECURSIVE general_append_and_prepend_rows(_, _, _, _, _)
\* The loop of general_append_and_prepend over the offset windows; st is
\* <<mutable, offsets>> so far.
general_append_and_prepend_rows(list_array, element_array, is_append, row_index, st) ==
    IF row_index = ArrLen(list_array) THEN st
    ELSE LET start == list_array.offsets[row_index + 1]
             end == list_array.offsets[row_index + 2]
             mutable ==
                 IF is_append
                 THEN extend(extend(st.mutable, list_array.values, start, end),
                             element_array, row_index, row_index + 1)
                 ELSE extend(extend(st.mutable, element_array, row_index, row_index + 1),
                             list_array.values, start, end)
         IN  general_append_and_prepend_rows(
                 list_array, element_array, is_append, row_index + 1,
                 [mutable |-> mutable,
                  offsets |-> Append(st.offsets,
                                     st.offsets[row_index + 1] + (end - start + 1))])

general_append_and_prepend(list_array, element_array, data_type, is_append) ==
    IF element_array.dt # list_array.values.dt
    THEN Panic("Arrays with inconsistent types passed to MutableArrayData")
    ELSE LET st == general_append_and_prepend_rows(
                       list_array, element_array, is_append, 0,
                       [mutable |-> EmptyArr(list_array.values.dt), offsets |-> <<0>>])
         IN  try_new(data_type, st.offsets, st.mutable, AllValid(Len(st.offsets) - 1))

\* datafusion_common::utils::list_ndims: the nesting depth of a data type.
list_ndims(data_type) == Len(data_type) - 1

\* The array wrapped as a whole: all of its rows in one outer row.
align_wrap_whole_column(aligned_array, n) ==
    IF n = 0 THEN aligned_array
    ELSE MkList(aligned_array.dt, <<0, ArrLen(aligned_array)>>, aligned_array, <<TRUE>>)
RECURSIVE align_wrap(_, _)
\* The inner loop of align_array_dimensions: wrap every row of the array in a
\* list of length 1, n times over.
align_wrap(aligned_array, n) ==
    IF n = 0 THEN aligned_array
    ELSE align_wrap(MkList(aligned_array.dt,
                           from_lengths([k \in 1..ArrLen(aligned_array) |-> 1]),
                           aligned_array,
                           AllValid(ArrLen(aligned_array))),
                    n - 1)

align_array_dimensions(a) ==
    LET args_ndim == [k \in 1..Len(a) |-> list_ndims(a[k].dt)]
        max_ndim == IF Len(a) = 0 THEN 0
                    ELSE CHOOSE m \in {args_ndim[k] : k \in 1..Len(a)} :
                             \A k \in 1..Len(a) : args_ndim[k] <= m
    IN  [k \in 1..Len(a) |-> align_wrap(a[k], max_ndim - args_ndim[k])]

RECURSIVE concat_internal_rows(_, _, _)
\* The row loop of concat_internal; st is <<array_lengths, arrays, valid, err>>.
concat_internal_rows(list_arrays, i, st) ==
    IF i = ArrLen(list_arrays[1]) \/ st.err # None THEN st
    ELSE IF \A k \in 1..Len(list_arrays) : is_null(list_arrays[k], i)
    THEN concat_internal_rows(list_arrays, i + 1,
             [st EXCEPT !.array_lengths = Append(@, 0), !.valid = Append(@, FALSE)])
    ELSE LET concated_array ==
                 concat([k \in 1..Len(list_arrays) |-> value(list_arrays[k], i)])
         IN  IF concated_array.kind # "ok"
             THEN [st EXCEPT !.err = Some(concated_array)]
             ELSE concat_internal_rows(list_arrays, i + 1,
                      [st EXCEPT !.array_lengths = Append(@, ArrLen(concated_array.col)),
                                 !.arrays = Append(@, concated_array.col),
                                 !.valid = Append(@, TRUE)])

concat_internal(a) ==
    LET list_arrays == align_array_dimensions(a)
    IN  IF \E k \in 1..Len(list_arrays) : ~IsListArr(list_arrays[k]) THEN CastErr
        ELSE LET st == concat_internal_rows(list_arrays, 0,
                           [array_lengths |-> <<>>, arrays |-> <<>>,
                            valid |-> <<>>, err |-> None])
                 values == concat(st.arrays)
             IN  IF st.err # None THEN st.err[1]
                 ELSE IF values.kind # "ok" THEN values
                 ELSE ListArray_new(value_type(list_arrays[1]),
                                    from_lengths(st.array_lengths), values.col, st.valid)

array_append(a) ==
    IF ~IsListArr(a[1]) THEN CastErr
    ELSE LET list_array == a[1]
             element_array == a[2]
             checked == check_datatypes("array_append", <<list_array.values, element_array>>)
         IN  IF checked.kind # "ok" THEN checked
             ELSE IF IsListType(value_type(list_array)) THEN concat_internal(a)
             ELSE IF value_type(list_array) = NullType THEN make_array(<<element_array>>)
             ELSE general_append_and_prepend(list_array, element_array,
                                             value_type(list_array), TRUE)

array_prepend(a) ==
    IF ~IsListArr(a[2]) THEN CastErr
    ELSE LET list_array == a[2]
             element_array == a[1]
             checked == check_datatypes("array_prepend", <<element_array, list_array.values>>)
         IN  IF checked.kind # "ok" THEN checked
             ELSE IF IsListType(value_type(list_array)) THEN concat_internal(a)
             ELSE IF value_type(list_array) = NullType THEN make_array(<<element_array>>)
             ELSE general_append_and_prepend(list_array, element_array,
                                             value_type(list_array), FALSE)

(***************************************************************************)
(* array_length                                                            *)
(***************************************************************************)
RECURSIVE compute_array_length_loop(_, _, _)
\* The loop of compute_array_length: descend into row 0 of each nesting level.
compute_array_length_loop(v, current_dimension, dimension) ==
    IF current_dimension = dimension THEN Ok(Some(ArrLen(v)))
    ELSE IF IsListArr(v)
    THEN IF ArrLen(v) = 0 THEN Panic("index out of bounds")
         ELSE compute_array_length_loop(value(v, 0), current_dimension + 1, dimension)
    ELSE Ok(None)

compute_array_length(arr, dimension) ==
    IF arr = None THEN Ok(None)
    ELSE IF dimension = None THEN Ok(None)
    ELSE IF dimension[1] < 1 THEN Ok(None)
    ELSE compute_array_length_loop(arr[1], 1, dimension[1])

RECURSIVE array_length_rows(_, _, _, _)
\* .zip(..).map(compute_array_length).collect::<Result<UInt64Array>>()
array_length_rows(list_array, dimension, i, acc) ==
    IF i = Min(ArrLen(list_array), ArrLen(dimension)) THEN Ok(PrimArray(UInt64, acc))
    ELSE LET r == compute_array_length(
                      IF is_null(list_array, i) THEN None ELSE Some(value(list_array, i)),
                      dimension.vals[i + 1])
         IN  IF r.kind # "ok" THEN r
             ELSE array_length_rows(list_array, dimension, i + 1, Append(acc, r.col))

array_length_dispatch(a) ==
    IF Len(a) = 2 /\ a[2].dt # Int64 THEN CastErr
    ELSE array_length_rows(a[1],
             IF Len(a) = 2 THEN a[2]
             ELSE PrimArray(Int64, [k \in 1..ArrLen(a[1]) |-> Some(1)]),
             0, <<>>)

array_length(a) ==
    IF IsListArr(a[1]) THEN array_length_dispatch(a)
    ELSE Err("internal", "array_length does not support type")

(***************************************************************************)
(* Row keys: RowConverter with the default SortField (ascending, nulls     *)
(* first).  The key of an element of a flat column is its optional value.  *)
(***************************************************************************)
\* RowConverter::convert_columns(&[arr]): one key per element, the key of a list
\* element being what the list holds.
convert_columns(arr) == Elems(arr)
\* RowConverter::convert_rows(rows): the column the keys came from.
convert_rows(dt, rows) == PrimArray(dt, rows)

\* The order of the keys: a null before every value, values ascending.
RowLess(x, y) == IF x = None THEN y # None ELSE y # None /\ x[1] < y[1]

RECURSIVE sorted(_)
\* Itertools::sorted
sorted(rows) ==
    IF rows = <<>> THEN <<>>
    ELSE LET rest == sorted(Tail(rows))
             k == Cardinality({j \in 1..Len(rest) : RowLess(rest[j], Head(rows))})
         IN  SubSeq(rest, 1, k) \o <<Head(rows)>> \o SubSeq(rest, k + 1, Len(rest))

RECURSIVE dedup(_)
\* Itertools::dedup: consecutive equal keys collapse to one.
dedup(rows) ==
    IF Len(rows) <= 1 THEN rows
    ELSE LET d == dedup(SubSeq(rows, 1, Len(rows) - 1))
         IN  IF Last(d) = Last(rows) THEN d ELSE Append(d, Last(rows))

\* list_array.iter(): per row None for a null row, else Some(row values).
iter(list_array) ==
    [i \in 1..ArrLen(list_array) |->
        IF is_null(list_array, i - 1) THEN None ELSE Some(value(list_array, i - 1))]

(***************************************************************************)
(* array_distinct, array_intersect                                         *)
(***************************************************************************)
RECURSIVE general_array_distinct_rows(_, _, _)
\* The loop of general_array_distinct over array.iter().flatten(); st is
\* <<offsets, new_arrays>> so far.
general_array_distinct_rows(array, i, st) ==
    IF i = ArrLen(array) THEN st
    ELSE IF iter(array)[i + 1] = None THEN general_array_distinct_rows(array, i + 1, st)
    ELSE LET values == convert_columns(iter(array)[i + 1][1])
             rows == dedup(sorted(values))
         IN  general_array_distinct_rows(array, i + 1,
                 [offsets |-> Append(st.offsets, Last(st.offsets) + Len(rows)),
                  new_arrays |-> Append(st.new_arrays, convert_rows(value_type(array), rows))])

general_array_distinct(array) ==
    LET st == general_array_distinct_rows(array, 0, [offsets |-> <<0>>, new_arrays |-> <<>>])
        values == concat(st.new_arrays)
    IN  IF values.kind # "ok" THEN values
        ELSE try_new(value_type(array), st.offsets, values.col, AllValid(Len(st.offsets) - 1))

array_distinct(a) ==
    IF Len(a) # 1 THEN Panic("assertion failed: args.len() == 1")
    ELSE IF a[1].dt = NullType THEN Ok(a[1])
    ELSE IF IsListArr(a[1]) THEN general_array_distinct(a[1])
    ELSE Err("internal", "array_distinct only support list array")

RECURSIVE array_intersect_rows(_, _, _, _)
\* The loop of array_intersect over first_array.iter().zip(second_array.iter()).
array_intersect_rows(first_array, second_array, i, st) ==
    IF i = Min(ArrLen(first_array), ArrLen(second_array)) THEN st
    ELSE IF iter(first_array)[i + 1] = None \/ iter(second_array)[i + 1] = None
    THEN array_intersect_rows(first_array, second_array, i + 1, st)
    ELSE LET l_values == convert_columns(iter(first_array)[i + 1][1])
             r_values == dedup(sorted(convert_columns(iter(second_array)[i + 1][1])))
             values_set == {l_values[k] : k \in 1..Len(l_values)}
             rows == SelectSeq(r_values, LAMBDA r_val : r_val \in values_set)
         IN  array_intersect_rows(first_array, second_array, i + 1,
                 [offsets |-> Append(st.offsets, Last(st.offsets) + Len(rows)),
                  new_arrays |-> Append(st.new_arrays,
                                        convert_rows(value_type(first_array), rows))])

array_intersect(a) ==
    IF Len(a) # 2 THEN Panic("assertion failed: args.len() == 2")
    ELSE IF a[1].dt = NullType THEN Ok(a[2])
    ELSE IF a[2].dt = NullType THEN Ok(a[1])
    ELSE IF ~IsListArr(a[1]) \/ ~IsListArr(a[2]) THEN CastErr
    ELSE IF value_type(a[1]) # value_type(a[2])
    THEN Err("internal", "array_intersect is not implemented for")
    ELSE LET st == array_intersect_rows(a[1], a[2], 0,
                       [offsets |-> <<0>>, new_arrays |-> <<>>])
             values == concat(st.new_arrays)
         IN  IF values.kind # "ok" THEN values
             ELSE try_new(value_type(a[1]), st.offsets, values.col,
                          AllValid(Len(st.offsets) - 1))

(***************************************************************************)
(* array_has, array_has_any, array_has_all                                 *)
(***************************************************************************)
\* The match on comparison_type for one pair of rows that are both Some.
array_has_row(arr_values, sub_arr_values, row_idx, comparison_type) ==
    LET arr_keys == dedup(arr_values)
        sub_keys == dedup(sub_arr_values)
    IN  IF comparison_type = "All"
        THEN \A e \in 1..Len(sub_keys) : \E x \in 1..Len(arr_keys) : arr_keys[x] = sub_keys[e]
        ELSE IF comparison_type = "Any"
        THEN \E e \in 1..Len(sub_keys) : \E x \in 1..Len(arr_keys) : arr_keys[x] = sub_keys[e]
        ELSE \E x \in 1..Len(arr_keys) : arr_keys[x] = sub_arr_values[row_idx + 1]

RECURSIVE general_array_has_rows(_, _, _, _, _, _)
\* The loop of general_array_has_dispatch: a value is appended to the builder
\* only for a row that is Some on both sides.
general_array_has_rows(array, sub_array, element, comparison_type, row_idx, builder) ==
    IF row_idx = Min(ArrLen(array), ArrLen(sub_array)) THEN builder
    ELSE IF iter(array)[row_idx + 1] = None \/ iter(sub_array)[row_idx + 1] = None
    THEN general_array_has_rows(array, sub_array, element, comparison_type,
                                row_idx + 1, builder)
    ELSE LET arr_values == convert_columns(iter(array)[row_idx + 1][1])
             sub_arr_values ==
                 IF comparison_type # "Single"
                 THEN convert_columns(iter(sub_array)[row_idx + 1][1])
                 ELSE convert_columns(element)
         IN  general_array_has_rows(array, sub_array, element, comparison_type, row_idx + 1,
                 Append(builder,
                        Some(array_has_row(arr_values, sub_arr_values, row_idx,
                                           comparison_type))))

general_array_has_dispatch(array, sub_array, comparison_type) ==
    LET checked == IF comparison_type = "Single"
                   THEN check_datatypes("array_has", <<array.values, sub_array>>)
                   ELSE check_datatypes("array_has", <<array, sub_array>>)
    IN  IF checked.kind # "ok" THEN checked
        ELSE IF comparison_type # "Single" /\ ~IsListArr(sub_array) THEN CastErr
        ELSE IF /\ comparison_type = "Single"
                /\ sub_array.dt # value_type(array)
                /\ \E i \in 1..ArrLen(array) : iter(array)[i] # None
        THEN Err("arrow", "RowConverter column schema mismatch")
        ELSE Ok(PrimArray(Boolean,
                    general_array_has_rows(
                        array,
                        IF comparison_type # "Single" THEN sub_array ELSE array,
                        sub_array, comparison_type, 0, <<>>)))

array_has(a) ==
    IF IsListArr(a[1]) THEN general_array_has_dispatch(a[1], a[2], "Single")
    ELSE Err("internal", "array_has does not support type")

array_has_any(a) ==
    IF IsListArr(a[1]) THEN general_array_has_dispatch(a[1], a[2], "Any")
    ELSE Err("internal", "array_has_any does not support type")

array_has_all(a) ==
    IF IsListArr(a[1]) THEN general_array_has_dispatch(a[1], a[2], "All")
    ELSE Err("internal", "array_has_all does not support type")

(***************************************************************************)
(* array_position                                                          *)
(***************************************************************************)
compare_element_to_list(list_array_row, element_array, row_index, eq) ==
    LET element_array_row == SliceArr(element_array, row_index, 1)
    IN  IF IsListArr(element_array_row)
        THEN IF ~IsListArr(list_array_row) THEN CastErr
             ELSE Ok([k \in 1..ArrLen(list_array_row) |->
                         IF is_null(list_array_row, k - 1) THEN None
                         ELSE Some((Elems(value(list_array_row, k - 1))
                                        = Elems(value(element_array_row, 0))) = eq)])
        ELSE IF list_array_row.dt # element_array_row.dt
        THEN Err("arrow", "Invalid comparison operation")
        ELSE Ok([k \in 1..ArrLen(list_array_row) |->
                    Some((list_array_row.vals[k] = element_array_row.vals[1]) = eq)])

\* PrimitiveArray::value(i) and values(): what the values buffer holds; a null
\* slot built from None holds 0.
RawValue(slot) == IF slot = None THEN 0 ELSE slot[1]

RECURSIVE general_position_rows(_, _, _, _, _)
\* The loop of general_position; data is the positions so far.
general_position_rows(list_array, element_array, arr_from, row_index, data) ==
    IF row_index = Min(ArrLen(list_array), Len(arr_from)) THEN Ok(PrimArray(UInt64, data))
    ELSE IF iter(list_array)[row_index + 1] = None
    THEN general_position_rows(list_array, element_array, arr_from, row_index + 1,
                               Append(data, None))
    ELSE LET from == arr_from[row_index + 1]
             eq_array == compare_element_to_list(iter(list_array)[row_index + 1][1],
                                                 element_array, row_index, TRUE)
             hits == {k \in (from + 1)..Len(eq_array.col) : eq_array.col[k] = Some(TRUE)}
             index == IF hits = {} THEN None
                      ELSE Some(CHOOSE k \in hits : \A j \in hits : k <= j)
         IN  IF eq_array.kind # "ok" THEN eq_array
             ELSE general_position_rows(list_array, element_array, arr_from, row_index + 1,
                                        Append(data, index))

general_position(list_array, element_array, arr_from) ==
    general_position_rows(list_array, element_array, arr_from, 0, <<>>)

array_position(a) ==
    IF ~IsListArr(a[1]) THEN CastErr
    ELSE LET list_array == a[1]
             element_array == a[2]
             checked == check_datatypes("array_position", <<list_array.values, element_array>>)
             arr_from == IF Len(a) = 3
                         THEN [k \in 1..ArrLen(a[3]) |-> RawValue(a[3].vals[k]) - 1]
                         ELSE [k \in 1..ArrLen(list_array) |-> 0]
         IN  IF checked.kind # "ok" THEN checked
             ELSE IF Len(a) = 3 /\ a[3].dt # Int64 THEN CastErr
             ELSE IF \E k \in 1..Min(ArrLen(list_array), Len(arr_from)) :
                         /\ iter(list_array)[k] # None
                         /\ \/ arr_from[k] < 0
                            \/ arr_from[k] >= ArrLen(iter(list_array)[k][1])
             THEN Err("internal", "start_from index out of bounds")
             ELSE general_position(list_array, element_array, arr_from)

(***************************************************************************)
(* gen_range                                                               *)
(***************************************************************************)
\* `x as usize` of an i64 x: the value modulo the word size.
as_usize(x) == x % (2 ^ UsizeBits)
\* i64::MAX, for the word size of the model.
i64_MAX == 2 ^ (UsizeBits - 1) - 1
i64_MIN == 0 - 2 ^ (UsizeBits - 1)
\* x + y of two i64 in a build without overflow checks.
wrapping_add(x, y) ==
    LET sum == x + y
    IN  IF sum > i64_MAX THEN sum - 2 ^ UsizeBits
        ELSE IF sum < i64_MIN THEN sum + 2 ^ UsizeBits
        ELSE sum

\* (start..stop).step_by(step) for step > 0
RangeUp(start, stop, step) ==
    [k \in 1..(IF stop <= start THEN 0 ELSE (stop - start + step - 1) \div step) |->
        Some(start + (k - 1) * step)]

\* (stop + 1..start + 1).rev().step_by(-step) for step < 0, the two sums
\* wrapping as they do in a build without overflow checks.
RangeDown(start, stop, step) ==
    LET low == wrapping_add(stop, 1)
        high == wrapping_add(start, 1)
    IN  [k \in 1..(IF high <= low THEN 0 ELSE (high - low - step - 1) \div (0 - step)) |->
            Some(high - 1 + (k - 1) * step)]

RECURSIVE gen_range_rows(_, _, _, _, _)
\* The loop of gen_range over stop_array; st is <<values, offsets, err>> so far.
\* An absent start_array or step_array is None.
gen_range_rows(start_array, stop_array, step_array, idx, st) ==
    IF idx = ArrLen(stop_array) \/ st.err # None THEN st
    ELSE LET stop == RawValue(IF stop_array.vals[idx + 1] = None THEN Some(0)
                              ELSE stop_array.vals[idx + 1])
             start == IF start_array = None THEN 0
                      ELSE RawValue(start_array[1].vals[idx + 1])
             step == IF step_array = None THEN 1
                     ELSE RawValue(step_array[1].vals[idx + 1])
             values == IF step < 0 THEN st.values \o RangeDown(start, stop, step)
                       ELSE st.values \o RangeUp(start, stop, step)
         IN  IF step = 0
             THEN [st EXCEPT !.err =
                      Some(Err("execution",
                               "step can't be 0 for function range(start [, stop, step]"))]
             ELSE gen_range_rows(start_array, stop_array, step_array, idx + 1,
                      [st EXCEPT !.values = values,
                                 !.offsets = Append(@, Len(values))])

gen_range(a) ==
    IF Len(a) \notin 1..3 THEN Err("internal", "gen_range expects 1 to 3 arguments")
    ELSE IF \E k \in 1..Len(a) : a[k].dt # Int64 THEN CastErr
    ELSE LET start_array == IF Len(a) = 1 THEN None ELSE Some(a[1])
             stop_array == IF Len(a) = 1 THEN a[1] ELSE a[2]
             step_array == IF Len(a) = 3 THEN Some(a[3]) ELSE None
             st == gen_range_rows(start_array, stop_array, step_array, 0,
                                  [values |-> <<>>, offsets |-> <<0>>, err |-> None])
         IN  IF st.err # None THEN st.err[1]
             ELSE try_new(Int64, st.offsets, PrimArray(Int64, st.values),
                          AllValid(Len(st.offsets) - 1))

\* gen_range in a build with overflow checks: `stop + 1` or `start + 1` of a
\* decreasing range panics at i64::MAX, in the first row that gets there.
gen_range_overflow_checked(a) ==
    IF Len(a) \notin 1..3 \/ \E k \in 1..Len(a) : a[k].dt # Int64 THEN gen_range(a)
    ELSE LET stop_array == IF Len(a) = 1 THEN a[1] ELSE a[2]
             stop(idx) == RawValue(stop_array.vals[idx])
             start(idx) == IF Len(a) = 1 THEN 0 ELSE RawValue(a[1].vals[idx])
             step(idx) == IF Len(a) = 3 THEN RawValue(a[3].vals[idx]) ELSE 1
         IN  IF \E idx \in 1..ArrLen(stop_array) :
                    /\ \A j \in 1..idx : step(j) # 0
                    /\ step(idx) < 0
                    /\ stop(idx) = i64_MAX \/ start(idx) = i64_MAX
             THEN Panic("attempt to add with overflow")
             ELSE gen_range(a)

(***************************************************************************)
(* array_positions                                                         *)
(***************************************************************************)
\* ListArray::from_iter_primitive::<UInt64Type>(data): one row per entry of
\* data, null for None.
from_iter_primitive(item_dt, data) ==
    LET lengths == [k \in 1..Len(data) |-> IF data[k] = None THEN 0 ELSE Len(data[k][1])]
        rows == [k \in 1..Len(data) |->
                    PrimArray(item_dt, IF data[k] = None THEN <<>> ELSE data[k][1])]
    IN  MkList(item_dt, from_lengths(lengths),
               IF rows = <<>> THEN EmptyArr(item_dt) ELSE ConcatSeq(rows),
               [k \in 1..Len(data) |-> data[k] # None])

RECURSIVE general_positions_rows(_, _, _, _)
\* The loop of general_positions; data is the rows so far.
general_positions_rows(list_array, element_array, row_index, data) ==
    IF row_index = ArrLen(list_array) THEN Ok(from_iter_primitive(UInt64, data))
    ELSE IF iter(list_array)[row_index + 1] = None
    THEN general_positions_rows(list_array, element_array, row_index + 1,
                                Append(data, None))
    ELSE LET eq_array == compare_element_to_list(iter(list_array)[row_index + 1][1],
                                                 element_array, row_index, TRUE)
             indexes == IF eq_array.kind = "ok"
                        THEN SelectSeq([k \in 1..Len(eq_array.col) |-> k],
                                       LAMBDA k : eq_array.col[k] = Some(TRUE))
                        ELSE <<>>
         IN  IF eq_array.kind # "ok" THEN eq_array
             ELSE general_positions_rows(
                      list_array, element_array, row_index + 1,
                      Append(data, Some([k \in 1..Len(indexes) |-> Some(indexes[k])])))

general_positions(list_array, element_array) ==
    general_positions_rows(list_array, element_array, 0, <<>>)

array_positions(a) ==
    IF ~IsListArr(a[1]) THEN CastErr
    ELSE LET checked == check_datatypes("array_positions", <<a[1].values, a[2]>>)
         IN  IF checked.kind # "ok" THEN checked
             ELSE general_positions(a[1], a[2])

(***************************************************************************)
(* array_except, array_union                                               *)
(***************************************************************************)
RECURSIVE insert_rows(_, _, _, _)
\* for i in slice { if dedup.insert(row(i)) { rows.push(row(i)) } } over the
\* keys at positions from .. to-1; st is <<dedup, rows>> so far.
insert_rows(keys, from, to, st) ==
    IF from >= to THEN st
    ELSE insert_rows(keys, from + 1, to,
             IF keys[from + 1] \in st.dedup THEN st
             ELSE [dedup |-> st.dedup \cup {keys[from + 1]},
                   rows |-> Append(st.rows, keys[from + 1])])

\* The keys at positions from .. to-1.
slice_keys(keys, from, to) == {keys[k] : k \in (from + 1)..to}

RECURSIVE general_except_rows_kept_set(_, _, _, _)
\* The loop of general_except without dedup.clear(): the set of a row starts
\* from every key of the rows before it.
general_except_rows_kept_set(l, r, i, st) ==
    IF i = Min(ArrLen(l), ArrLen(r)) THEN st
    ELSE LET l_values == convert_columns(l.values)
             r_values == convert_columns(r.values)
             scanned == insert_rows(l_values, l.offsets[i + 1], l.offsets[i + 2],
                            [dedup |-> slice_keys(l_values, l.offsets[1], l.offsets[i + 1])
                                       \cup slice_keys(r_values, r.offsets[1], r.offsets[i + 2]),
                             rows |-> st.rows])
         IN  general_except_rows_kept_set(l, r, i + 1,
                 [offsets |-> Append(st.offsets, Len(scanned.rows)), rows |-> scanned.rows])

RECURSIVE general_except_rows(_, _, _, _)
\* The loop of general_except over the paired offset windows; st is
\* <<offsets, rows>> so far.
general_except_rows(l, r, i, st) ==
    IF i = Min(ArrLen(l), ArrLen(r)) THEN st
    ELSE LET l_values == convert_columns(l.values)
             r_values == convert_columns(r.values)
             scanned == insert_rows(l_values, l.offsets[i + 1], l.offsets[i + 2],
                            [dedup |-> slice_keys(r_values, r.offsets[i + 1], r.offsets[i + 2]),
                             rows |-> st.rows])
         IN  general_except_rows(l, r, i + 1,
                 [offsets |-> Append(st.offsets, Len(scanned.rows)), rows |-> scanned.rows])

general_except(l, r) ==
    LET st == general_except_rows(l, r, 0, [offsets |-> <<0>>, rows |-> <<>>])
    IN  ListArray_new(value_type(l), st.offsets, convert_rows(value_type(l), st.rows), l.valid)

\* array_except returning, for an untyped-null argument, the other argument.
array_except_other_side(a) ==
    IF Len(a) # 2 THEN Err("internal", "array_except needs two arguments")
    ELSE IF a[1].dt = NullType THEN Ok(a[2])
    ELSE IF a[2].dt = NullType THEN Ok(a[1])
    ELSE IF IsListArr(a[1]) /\ IsListArr(a[2])
    THEN LET checked == check_datatypes("array_except", a)
         IN  IF checked.kind # "ok" THEN checked
             ELSE general_except(a[1], a[2])
    ELSE Err("internal", "array_except got unexpected types")

array_except(a) ==
    IF Len(a) # 2 THEN Err("internal", "array_except needs two arguments")
    ELSE IF a[1].dt = NullType \/ a[2].dt = NullType THEN Ok(a[1])
    ELSE IF IsListArr(a[1]) /\ IsListArr(a[2])
    THEN LET checked == check_datatypes("array_except", a)
         IN  IF checked.kind # "ok" THEN checked
             ELSE general_except(a[1], a[2])
    ELSE Err("internal", "array_except got unexpected types")

RECURSIVE union_generic_lists_rows_kept_set(_, _, _, _)
\* The loop of union_generic_lists without dedup.clear(): the set of a row
\* starts from every key of the rows before it.
union_generic_lists_rows_kept_set(l, r, i, st) ==
    IF i = Min(ArrLen(l), ArrLen(r)) THEN st
    ELSE LET l_values == convert_columns(l.values)
             r_values == convert_columns(r.values)
             left == insert_rows(l_values, l.offsets[i + 1], l.offsets[i + 2],
                         [dedup |-> slice_keys(l_values, l.offsets[1], l.offsets[i + 1])
                                    \cup slice_keys(r_values, r.offsets[1], r.offsets[i + 1]),
                          rows |-> st.rows])
             right == insert_rows(r_values, r.offsets[i + 1], r.offsets[i + 2], left)
         IN  union_generic_lists_rows_kept_set(l, r, i + 1,
                 [offsets |-> Append(st.offsets, Len(right.rows)), rows |-> right.rows])

RECURSIVE union_generic_lists_rows(_, _, _, _)
\* The loop of union_generic_lists over the paired offset windows; st is
\* <<offsets, rows>> so far.
union_generic_lists_rows(l, r, i, st) ==
    IF i = Min(ArrLen(l), ArrLen(r)) THEN st
    ELSE LET l_values == convert_columns(l.values)
             r_values == convert_columns(r.values)
             left == insert_rows(l_values, l.offsets[i + 1], l.offsets[i + 2],
                                 [dedup |-> {}, rows |-> st.rows])
             right == insert_rows(r_values, r.offsets[i + 1], r.offsets[i + 2], left)
         IN  union_generic_lists_rows(l, r, i + 1,
                 [offsets |-> Append(st.offsets, Len(right.rows)), rows |-> right.rows])

\* NullBuffer::union: a row is valid when it is valid on both sides.
NullBuffer_union(l_valid, r_valid) ==
    [k \in 1..Min(Len(l_valid), Len(r_valid)) |-> l_valid[k] /\ r_valid[k]]

union_generic_lists(l, r) ==
    IF r.values.dt # value_type(l)
    THEN Err("arrow", "RowConverter column schema mismatch")
    ELSE LET st == union_generic_lists_rows(l, r, 0, [offsets |-> <<0>>, rows |-> <<>>])
         IN  ListArray_new(value_type(l), st.offsets,
                           convert_rows(value_type(l), st.rows),
                           NullBuffer_union(l.valid, r.valid))

\* The function union_arrays local to array_union.
union_arrays(array1, array2) ==
    IF value_type(array1) = NullType THEN Ok(array2)
    ELSE IF value_type(array2) = NullType THEN Ok(array1)
    ELSE union_generic_lists(array1, array2)

array_union(a) ==
    IF Len(a) # 2 THEN Err("execution", "array_union needs two arguments")
    ELSE IF a[1].dt = NullType THEN Ok(a[2])
    ELSE IF a[2].dt = NullType THEN Ok(a[1])
    ELSE IF IsListArr(a[1]) /\ IsListArr(a[2]) THEN union_arrays(a[1], a[2])
    ELSE Err("internal",
             "array_union only support list with offsets of type int32 and int64")

(***************************************************************************)
(* array_remove, array_remove_n, array_remove_all                          *)
(***************************************************************************)

\* BooleanArray::false_count: the slots that are non-null and false.
false_count(mask) == Cardinality({k \in 1..Len(mask) : mask[k] = Some(FALSE)})

RECURSIVE filter_rows(_, _, _)
\* arrow::compute::filter over the first k slots: a slot is kept when the
\* predicate is true there; a null predicate keeps nothing.
filter_rows(values, predicate, k) ==
    IF k = 0 THEN EmptyArr(values.dt)
    ELSE LET kept == filter_rows(values, predicate, k - 1)
         IN  IF predicate[k] = Some(TRUE)
             THEN ConcatArr(kept, SliceArr(values, k - 1, 1))
             ELSE kept

filter(values, predicate) == filter_rows(values, predicate, ArrLen(values))

\* The mask general_remove filters a row by: the first n false slots stay false,
\* every later false slot becomes true.
first_n_false(eq_array, n) ==
    IF false_count(eq_array) < as_usize(n) THEN eq_array
    ELSE [k \in 1..Len(eq_array) |->
             IF /\ eq_array[k] = Some(FALSE)
                /\ false_count(SubSeq(eq_array, 1, k - 1)) >= n
             THEN Some(TRUE)
             ELSE eq_array[k]]

RECURSIVE general_remove_rows(_, _, _, _, _)
\* The loop of general_remove; st is <<offsets, new_values, err>> so far.
general_remove_rows(list_array, element_array, arr_n, row_index, st) ==
    IF row_index = Min(ArrLen(list_array), Len(arr_n)) \/ st.err # None THEN st
    ELSE IF iter(list_array)[row_index + 1] = None
    THEN general_remove_rows(list_array, element_array, arr_n, row_index + 1,
             [st EXCEPT !.offsets = Append(@, @[row_index + 1])])
    ELSE LET list_array_row == iter(list_array)[row_index + 1][1]
             eq_array == compare_element_to_list(list_array_row, element_array,
                                                 row_index, FALSE)
             filtered_array == filter(list_array_row,
                                      first_n_false(eq_array.col, arr_n[row_index + 1]))
         IN  IF eq_array.kind # "ok" THEN [st EXCEPT !.err = Some(eq_array)]
             ELSE general_remove_rows(list_array, element_array, arr_n, row_index + 1,
                      [st EXCEPT !.offsets = Append(@, @[row_index + 1]
                                                        + ArrLen(filtered_array)),
                                 !.new_values = Append(@, filtered_array)])

general_remove(list_array, element_array, arr_n) ==
    LET data_type == value_type(list_array)
        st == general_remove_rows(list_array, element_array, arr_n, 0,
                                  [offsets |-> <<0>>, new_values |-> <<>>, err |-> None])
        values == IF st.new_values = <<>> THEN Ok(EmptyArr(data_type))
                  ELSE concat(st.new_values)
    IN  IF st.err # None THEN st.err[1]
        ELSE IF values.kind # "ok" THEN values
        ELSE try_new(data_type, st.offsets, values.col, list_array.valid)

array_remove_internal(array, element_array, arr_n) ==
    IF IsListArr(array) THEN general_remove(array, element_array, arr_n)
    ELSE Err("internal", "array_remove_all expects a list array")

array_remove_all(a) ==
    array_remove_internal(a[1], a[2], [k \in 1..ArrLen(a[1]) |-> i64_MAX])

array_remove(a) ==
    array_remove_internal(a[1], a[2], [k \in 1..ArrLen(a[1]) |-> 1])

array_remove_n(a) ==
    IF a[3].dt # Int64 THEN CastErr
    ELSE array_remove_internal(a[1], a[2],
                               [k \in 1..ArrLen(a[3]) |-> RawValue(a[3].vals[k])])

(***************************************************************************)
(* array_replace, array_replace_n, array_replace_all                       *)
(***************************************************************************)
RECURSIVE general_replace_row(_, _, _, _, _, _, _, _)
\* The loop of general_replace over eq_array from slot i on, for the row whose
\* values span start .. end-1.
general_replace_row(values, to_array, eq_array, row_index, start, end, n, st) ==
    IF st.i = Len(eq_array) THEN st.mutable
    ELSE IF eq_array[st.i + 1] = Some(TRUE)
    THEN LET replaced == extend(st.mutable, to_array, row_index, row_index + 1)
         IN  IF st.counter + 1 = n
             THEN extend(replaced, values, start + st.i + 1, end)
             ELSE general_replace_row(values, to_array, eq_array, row_index, start, end, n,
                      [i |-> st.i + 1, counter |-> st.counter + 1, mutable |-> replaced])
    ELSE general_replace_row(values, to_array, eq_array, row_index, start, end, n,
             [i |-> st.i + 1, counter |-> st.counter,
              mutable |-> extend(st.mutable, values, start + st.i, start + st.i + 1)])

RECURSIVE general_replace_rows(_, _, _, _, _, _)
\* The loop of general_replace over the offset windows; st is
\* <<offsets, mutable, valid, err>> so far.
general_replace_rows(list_array, from_array, to_array, arr_n, row_index, st) ==
    IF row_index = ArrLen(list_array) \/ st.err # None THEN st
    ELSE IF is_null(list_array, row_index)
    THEN general_replace_rows(list_array, from_array, to_array, arr_n, row_index + 1,
             [st EXCEPT !.offsets = Append(@, @[row_index + 1]),
                        !.valid = Append(@, FALSE)])
    ELSE LET start == list_array.offsets[row_index + 1]
             end == list_array.offsets[row_index + 2]
             list_array_row == value(list_array, row_index)
             eq_array == compare_element_to_list(list_array_row, from_array, row_index, TRUE)
             n == arr_n[row_index + 1]
             mutable ==
                 IF false_count(eq_array.col) = Len(eq_array.col)
                 THEN extend(st.mutable, list_array.values, start, end)
                 ELSE general_replace_row(list_array.values, to_array, eq_array.col,
                                          row_index, start, end, n,
                                          [i |-> 0, counter |-> 0, mutable |-> st.mutable])
         IN  IF eq_array.kind # "ok" THEN [st EXCEPT !.err = Some(eq_array)]
             ELSE general_replace_rows(list_array, from_array, to_array, arr_n, row_index + 1,
                      [st EXCEPT !.offsets = Append(@, @[row_index + 1] + (end - start)),
                                 !.mutable = mutable,
                                 !.valid = Append(@, TRUE)])

general_replace(list_array, from_array, to_array, arr_n) ==
    IF to_array.dt # list_array.values.dt
    THEN Panic("Arrays with inconsistent types passed to MutableArrayData")
    ELSE LET st == general_replace_rows(list_array, from_array, to_array, arr_n, 0,
                       [offsets |-> <<0>>, mutable |-> EmptyArr(list_array.values.dt),
                        valid |-> <<>>, err |-> None])
         IN  IF st.err # None THEN st.err[1]
             ELSE try_new(value_type(list_array), st.offsets, st.mutable, st.valid)

array_replace(a) ==
    IF ~IsListArr(a[1]) THEN CastErr
    ELSE general_replace(a[1], a[2], a[3], [k \in 1..ArrLen(a[1]) |-> 1])

array_replace_n(a) ==
    IF a[4].dt # Int64 \/ ~IsListArr(a[1]) THEN CastErr
    ELSE general_replace(a[1], a[2], a[3],
                         [k \in 1..ArrLen(a[4]) |-> RawValue(a[4].vals[k])])

array_replace_all(a) ==
    IF ~IsListArr(a[1]) THEN CastErr
    ELSE general_replace(a[1], a[2], a[3], [k \in 1..ArrLen(a[1]) |-> i64_MAX])

(***************************************************************************)
(* array_repeat                                                            *)
(***************************************************************************)
\* The process is ended by the allocator (handle_alloc_error).
Abort(msg) == [kind |-> "abort", msg |-> msg]

RECURSIVE repeat_extend(_, _, _, _)
\* for _ in 0..count { mutable.extend(0, start, end) }
repeat_extend(mutable, source, start_end, count) ==
    IF count = 0 THEN mutable
    ELSE repeat_extend(extend(mutable, source, start_end[1], start_end[2]),
                       source, start_end, count - 1)

\* count_array.values() mapped by `*x as usize`
count_vec_of(count_array) ==
    [k \in 1..ArrLen(count_array) |-> as_usize(RawValue(count_array.vals[k]))]

\* A count no allocation can hold: more than isize::MAX elements.
exceeds_capacity(count_vec) == \E k \in 1..Len(count_vec) : count_vec[k] > i64_MAX

general_repeat(array, count_array) ==
    LET data_type == array.dt
        count_vec == count_vec_of(count_array)
        new_values ==
            [k \in 1..Len(count_vec) |->
                IF is_null(array, k - 1) THEN NullsArr(data_type, count_vec[k])
                ELSE repeat_extend(EmptyArr(data_type), array, <<k - 1, k>>, count_vec[k])]
        values == concat(new_values)
    IN  IF values.kind # "ok" THEN values
        ELSE try_new(data_type, from_lengths(count_vec), values.col,
                     AllValid(Len(count_vec)))

general_list_repeat(list_array, count_array) ==
    LET data_type == list_array.dt
        count_vec == count_vec_of(count_array)
        rows == Min(ArrLen(list_array), Len(count_vec))
        new_values ==
            [k \in 1..rows |->
                IF iter(list_array)[k] = None THEN NullsArr(data_type, count_vec[k])
                ELSE LET original_data == iter(list_array)[k][1]
                     IN  MkList(value_type(list_array),
                                from_lengths([c \in 1..count_vec[k] |-> ArrLen(original_data)]),
                                repeat_extend(EmptyArr(original_data.dt), original_data,
                                              <<0, ArrLen(original_data)>>, count_vec[k]),
                                AllValid(count_vec[k]))]
        lengths == [k \in 1..rows |-> ArrLen(new_values[k])]
        values == concat(new_values)
    IN  IF values.kind # "ok" THEN values
        ELSE try_new(data_type, from_lengths(lengths), values.col, AllValid(rows))

\* What a call of array_repeat can end in: with a count that no allocation can
\* hold, a panic (capacity or arithmetic overflow) or the allocator ending the
\* process; otherwise what the function returns.
array_repeat(a) ==
    IF a[2].dt # Int64 THEN {CastErr}
    ELSE IF exceeds_capacity(count_vec_of(a[2]))
    THEN {Panic("capacity overflow"), Abort("memory allocation failed")}
    ELSE IF IsListArr(a[1]) THEN {general_list_repeat(a[1], a[2])}
    ELSE {general_repeat(a[1], a[2])}

(***************************************************************************)
(* array_sort                                                              *)
(***************************************************************************)
\* A modifier string is the sequence of its characters.
LowerCase == <<"a", "b", "c", "d", "e", "f", "g", "h", "i", "j", "k", "l", "m",
               "n", "o", "p", "q", "r", "s", "t", "u", "v", "w", "x", "y", "z">>
UpperCase == <<"A", "B", "C", "D", "E", "F", "G", "H", "I", "J", "K", "L", "M",
               "N", "O", "P", "Q", "R", "S", "T", "U", "V", "W", "X", "Y", "Z">>
to_uppercase(modifier) ==
    [k \in 1..Len(modifier) |->
        IF \E l \in 1..Len(LowerCase) : LowerCase[l] = modifier[k]
        THEN UpperCase[CHOOSE l \in 1..Len(LowerCase) : LowerCase[l] = modifier[k]]
        ELSE modifier[k]]

DESC == <<"D", "E", "S", "C">>
ASC == <<"A", "S", "C">>
NULLS_FIRST == <<"N", "U", "L", "L", "S", " ", "F", "I", "R", "S", "T">>
NULLS_LAST == <<"N", "U", "L", "L", "S", " ", "L", "A", "S", "T">>

order_desc(modifier) ==
    IF to_uppercase(modifier) = DESC THEN Ok(TRUE)
    ELSE IF to_uppercase(modifier) = ASC THEN Ok(FALSE)
    ELSE Err("internal", "the second parameter of array_sort expects DESC or ASC")

order_nulls_first(modifier) ==
    IF to_uppercase(modifier) = NULLS_FIRST THEN Ok(TRUE)
    ELSE IF to_uppercase(modifier) = NULLS_LAST THEN Ok(FALSE)
    ELSE Err("internal",
             "the third parameter of array_sort expects NULLS FIRST or NULLS LAST")

SortOptions(descending, nulls_first) ==
    [descending |-> descending, nulls_first |-> nulls_first]

\* as_string_array(&args[k])?.value(0): a null slot reads as the empty string,
\* a column without rows has no slot 0.
string_value_0(arr) ==
    IF arr.dt # Utf8 THEN CastErr
    ELSE IF ArrLen(arr) = 0 THEN Panic("index out of bounds")
    ELSE Ok(IF arr.vals[1] = None THEN <<>> ELSE arr.vals[1][1])

Reverse(seq) == [k \in 1..Len(seq) |-> seq[Len(seq) + 1 - k]]

\* compute::sort of a primitive array; no options are SortOptions::default().
compute_sort(arr, sort_option) ==
    LET options == IF sort_option = None THEN SortOptions(FALSE, TRUE) ELSE sort_option[1]
        nulls == SelectSeq(arr.vals, LAMBDA v : v = None)
        ascending == sorted(SelectSeq(arr.vals, LAMBDA v : v # None))
        ordered == IF options.descending THEN Reverse(ascending) ELSE ascending
    IN  PrimArray(arr.dt, IF options.nulls_first THEN nulls \o ordered ELSE ordered \o nulls)

array_sort_option(a) ==
    IF Len(a) = 1 THEN Ok(None)
    ELSE IF Len(a) = 2
    THEN LET sort == string_value_0(a[2])
         IN  IF sort.kind # "ok" THEN sort
             ELSE LET descending == order_desc(sort.col)
                  IN  IF descending.kind # "ok" THEN descending
                      ELSE Ok(Some(SortOptions(descending.col, TRUE)))
    ELSE IF Len(a) = 3
    THEN LET sort == string_value_0(a[2])
             nulls_first == IF sort.kind = "ok" THEN string_value_0(a[3]) ELSE sort
         IN  IF nulls_first.kind # "ok" THEN nulls_first
             ELSE LET descending == order_desc(sort.col)
                      first == IF descending.kind = "ok"
                               THEN order_nulls_first(nulls_first.col) ELSE descending
                  IN  IF first.kind # "ok" THEN first
                      ELSE Ok(Some(SortOptions(descending.col, first.col)))
    ELSE Err("internal", "array_sort expects 1 to 3 arguments")

array_sort(a) ==
    LET sort_option == array_sort_option(a)
    IN  IF sort_option.kind # "ok" THEN sort_option
        ELSE IF ~IsListArr(a[1]) THEN CastErr
        ELSE LET list_array == a[1]
                 row_count == ArrLen(list_array)
                 rows == [i \in 1..row_count |->
                             IF is_null(list_array, i - 1) THEN None
                             ELSE Some(compute_sort(value(list_array, i - 1),
                                                    sort_option.col))]
                 array_lengths == [i \in 1..row_count |->
                                      IF rows[i] = None THEN 0 ELSE ArrLen(rows[i][1])]
                 arrays == [k \in 1..Cardinality({i \in 1..row_count : rows[i] # None}) |->
                               SelectSeq(rows, LAMBDA r : r # None)[k][1]]
                 elements == concat(arrays)
             IN  IF elements.kind # "ok" THEN elements
                 ELSE ListArray_new(value_type(list_array), from_lengths(array_lengths),
                                    elements.col,
                                    [i \in 1..row_count |-> rows[i] # None])

(***************************************************************************)
(* array_dims, array_ndims, flatten                                        *)
(***************************************************************************)
RECURSIVE compute_array_dims_loop(_, _)
\* The loop of compute_array_dims: descend into row 0 of each nesting level.
compute_array_dims_loop(v, res) ==
    IF IsListArr(v)
    THEN IF ArrLen(v) = 0 THEN Panic("index out of bounds")
         ELSE compute_array_dims_loop(value(v, 0), Append(res, Some(ArrLen(value(v, 0)))))
    ELSE Ok(Some(res))

compute_array_dims(arr) ==
    IF arr = None THEN Ok(None)
    ELSE IF ArrLen(arr[1]) = 0 THEN Ok(None)
    ELSE compute_array_dims_loop(arr[1], <<Some(ArrLen(arr[1]))>>)

RECURSIVE array_dims_rows(_, _, _)
\* list_array.iter().map(compute_array_dims).collect::<Result<Vec<_>>>()
array_dims_rows(list_array, i, data) ==
    IF i = ArrLen(list_array) THEN Ok(data)
    ELSE LET r == compute_array_dims(iter(list_array)[i + 1])
         IN  IF r.kind # "ok" THEN r
             ELSE array_dims_rows(list_array, i + 1, Append(data, r.col))

array_dims(a) ==
    IF ~IsListArr(a[1]) THEN CastErr
    ELSE LET data == array_dims_rows(a[1], 0, <<>>)
         IN  IF data.kind # "ok" THEN data
             ELSE Ok(from_iter_primitive(UInt64, data.col))

\* array_ndims giving the depth for every row, null rows included.
array_ndims_every_row(a) ==
    Ok(PrimArray(UInt64,
           [k \in 1..ArrLen(a[1]) |->
               Some(IF IsListArr(a[1]) THEN list_ndims(a[1].dt) ELSE 0)]))
array_ndims(a) ==
    IF IsListArr(a[1])
    THEN LET list_array == a[1]
             ndims == list_ndims(list_array.dt)
         IN  Ok(PrimArray(UInt64,
                    [k \in 1..ArrLen(list_array) |->
                        IF iter(list_array)[k] # None THEN Some(ndims) ELSE None]))
    ELSE Ok(PrimArray(UInt64, [k \in 1..ArrLen(a[1]) |-> Some(0)]))

\* The flattened offsets left as the outer offsets, not taken through the
\* inner ones.
get_offsets_for_flatten_outer_only(offsets, indexes) == indexes
get_offsets_for_flatten(offsets, indexes) ==
    [k \in 1..Len(indexes) |-> offsets[indexes[k] + 1]]

RECURSIVE flatten_internal(_, _)
flatten_internal(array, indexes) ==
    IF ~IsListArr(array) THEN CastErr
    ELSE LET offsets == array.offsets
             values == array.values
         IN  IF IsListType(value_type(array))
             THEN IF indexes # None
                  THEN flatten_internal(values,
                           Some(get_offsets_for_flatten(offsets, indexes[1])))
                  ELSE flatten_internal(values, Some(offsets))
             ELSE IF indexes # None
                  THEN LET new_offsets == get_offsets_for_flatten(offsets, indexes[1])
                       IN  ListArray_new(value_type(array), new_offsets, values,
                                         AllValid(Len(new_offsets) - 1))
                  ELSE Ok(array)

flatten(a) == flatten_internal(a[1], None)

(***************************************************************************)
(* Input columns.                                                          *)
(***************************************************************************)
\* The offsets of a list column of R rows over a values buffer of length s.
OffsetSeqs(R, s) ==
    {o \in [1..(R + 1) -> 0..s] :
        /\ o[1] = 0
        /\ o[R + 1] = s
        /\ \A k \in 1..R : o[k] <= o[k + 1]}

\* An Int64 values buffer whose element at position k is k: distinct elements,
\* so that every position of a row can be told from every other.
IdentityValues(s) == PrimArray(Int64, [k \in 1..s |-> Some(k)])

\* List(Int64) columns: every row count, offsets and null mask within the bounds.
\* A null row may span any number of values.
IntLists ==
    UNION {UNION {{MkList(Int64, o, IdentityValues(s), v) :
                      o \in OffsetSeqs(R, s), v \in [1..R -> BOOLEAN]} :
                  s \in 0..MaxVals} :
           R \in 0..MaxRows}

RowLen(list_array, i) == list_array.offsets[i + 2] - list_array.offsets[i + 1]

\* The 1-based indices that matter for a row of length len: every position of the
\* row from either end, 0, and one position past either end.
IndexRange(len) == {Some(i) : i \in (0 - (len + 1))..(len + 1)}
AllIndexes == IndexRange(MaxVals)

\* Int64 index columns for array_element: per row, any index that matters.
IndexArrays(list_array) ==
    {PrimArray(Int64, f) :
        f \in {g \in [1..ArrLen(list_array) -> AllIndexes] :
                  \A i \in 1..ArrLen(list_array) :
                      g[i] \in IndexRange(RowLen(list_array, i - 1))}}

\* The <<from, to>> pairs that matter for a row of length len, null bounds included.
BoundPairs(len) == ({None} \cup IndexRange(len)) \X ({None} \cup IndexRange(len))

\* Bounds a row takes when it is not the row under study: both null (the whole
\* row), 1 and the row's length (the whole row), 2 and null (all but the first).
DefaultBounds(len) == << <<None, None>>, <<Some(1), Some(len)>>, <<Some(2), None>> >>

\* The <<from_array, to_array>> columns for list_array: one row takes any pair of
\* BoundPairs, every other row takes the same kind of default.
SliceBounds(list_array) ==
    IF ArrLen(list_array) = 0
    THEN {<<PrimArray(Int64, <<>>), PrimArray(Int64, <<>>)>>}
    ELSE {<<PrimArray(Int64,
              [j \in 1..ArrLen(list_array) |->
                  IF j = i THEN p[1]
                  ELSE DefaultBounds(RowLen(list_array, j - 1))[d][1]]),
            PrimArray(Int64,
              [j \in 1..ArrLen(list_array) |->
                  IF j = i THEN p[2]
                  ELSE DefaultBounds(RowLen(list_array, j - 1))[d][2]])>> :
             <<i, p, d>> \in {t \in (1..ArrLen(list_array)) \X BoundPairs(MaxVals) \X (1..3) :
                                t[2] \in BoundPairs(RowLen(list_array, t[1] - 1))}}

\* The list columns of R rows over a given child array: every offsets sequence
\* and every null mask.
ListColumns(R, values) ==
    {MkList(values.dt, o, values, v) :
        o \in OffsetSeqs(R, ArrLen(values)), v \in [1..R -> BOOLEAN]}

\* Int64 element columns of R rows: per row null or the value 0, which no
\* IdentityValues buffer holds.
Int64Arrays(R) == {PrimArray(Int64, f) : f \in [1..R -> {None, Some(0)}]}

RECURSIVE FlatVals(_)
FlatVals(rows) ==
    IF rows = <<>> THEN <<>>
    ELSE FlatVals(SubSeq(rows, 1, Len(rows) - 1)) \o Last(rows).vals

\* A list row of at most one element e: null, empty, or [e].
ShortRows(e) ==
    {[valid |-> FALSE, vals |-> <<>>],
     [valid |-> TRUE, vals |-> <<>>],
     [valid |-> TRUE, vals |-> <<Some(e)>>]}

\* The list column of the given rows over a flat item type.
ListOfRows(item_dt, rows) ==
    MkList(item_dt, from_lengths([k \in 1..Len(rows) |-> Len(rows[k].vals)]),
           PrimArray(item_dt, FlatVals(rows)), [k \in 1..Len(rows) |-> rows[k].valid])

\* The List(Int64) columns that are the child of a nested list column: n rows,
\* row k null, empty or [k].
InnerLists(n) ==
    {ListOfRows(Int64, rows) :
        rows \in {f \in [1..n -> UNION {ShortRows(k) : k \in 1..n}] :
                     \A k \in 1..n : f[k] \in ShortRows(k)}}

\* List(List(Int64)) columns.
NestedLists ==
    UNION {UNION {UNION {ListColumns(R, inner) : inner \in InnerLists(n)} :
                  n \in 0..MaxRows} :
           R \in 0..MaxRows}

\* List(Int64) element columns of R rows: per row null, empty or [0].
ListElementArrays(R) == {ListOfRows(Int64, rows) : rows \in [1..R -> ShortRows(0)]}

\* A NullArray of n slots.
NullArray(n) == NullsArr(NullType, n)

\* List(Null) columns: list columns whose values are a NullArray.
NullLists ==
    UNION {UNION {ListColumns(R, NullArray(s)) : s \in 0..MaxRows} : R \in 0..MaxRows}

\* The element columns array_append and array_prepend take with list column l: an
\* Int64 element for a flat list, a list element for a nested list, an Int64 or
\* an untyped-null element for a List(Null) list; the columns of one call have
\* one row count.
ElementArrays(l) ==
    IF value_type(l) = Int64 THEN Int64Arrays(ArrLen(l))
    ELSE IF value_type(l) = NullType THEN Int64Arrays(ArrLen(l)) \cup {NullArray(ArrLen(l))}
    ELSE ListElementArrays(ArrLen(l))

\* The sequences over S of length at most n.
Seqs(S, n) == UNION {[1..k -> S] : k \in 0..n}

\* The columns of R rows, a row being a cell: one row takes any cell, every
\* other row takes the same default cell.
FocusSeqs(R, cells, defaults) ==
    IF R = 0 THEN {<<>>}
    ELSE {[j \in 1..R |-> IF j = i THEN c ELSE defaults[d]] :
             i \in 1..R, c \in cells, d \in 1..Len(defaults)}

\* Elements of the rows given to the set and search functions: null and two values.
ElemDomain == {None, Some(1), Some(2)}
ValidRow(vals) == [valid |-> TRUE, vals |-> vals]
NullRow(vals) == [valid |-> FALSE, vals |-> vals]

\* Rows given to the set and search functions: a valid row of at most MaxElems
\* elements in any order, repeats and nulls included, or a null row, which may
\* span a value.
SetRows ==
    {ValidRow(v) : v \in Seqs(ElemDomain, MaxElems)}
    \cup {NullRow(<<>>), NullRow(<<Some(1)>>)}

\* <<row, row>> cells for the rows that are not under study.
DefaultSetPairs ==
    << <<NullRow(<<>>), ValidRow(<<Some(1)>>)>>,
       <<ValidRow(<<Some(1), Some(2)>>), NullRow(<<>>)>>,
       <<ValidRow(<<Some(2), Some(1)>>), ValidRow(<<Some(2)>>)>> >>

\* <<row, element, start>> cells of array_has and array_position, start 1-based.
SearchCells == SetRows \X ElemDomain \X {Some(k) : k \in 0..(MaxElems + 1)}
DefaultSearchCells ==
    << <<ValidRow(<<Some(1), Some(2)>>), Some(2), Some(1)>>,
       <<NullRow(<<>>), Some(1), Some(1)>>,
       <<ValidRow(<<Some(2), Some(1)>>), None, Some(2)>> >>

\* Column c of a sequence of cells.
CellColumn(cells, c) == [k \in 1..Len(cells) |-> cells[k][c]]

\* <<start, stop, step>> cells of gen_range.
RangeCells == {-1, 0, 2} \X {None, Some(-2), Some(0), Some(3)} \X {-2, -1, 0, 1, 2}
DefaultRangeCells == << <<0, Some(3), 1>>, <<2, Some(-2), -1>>, <<0, None, 2>> >>
\* Ranges of two values at the upper end of i64, and the worked calls
\* gen_range(3) and gen_range(1, 7, 2).
RangeEdgeCells ==
    {<<i64_MAX, Some(i64_MAX - 2), -1>>, <<i64_MAX - 2, Some(i64_MAX), 1>>,
     <<0, Some(3), 1>>, <<1, Some(7), 2>>}

\* Lists of one row, and columns of other types, for the calls whose argument
\* count or argument types are not what the function expects.
OneRowLists == {ListOfRows(Int64, <<r>>) : r \in SetRows}
Utf8List == ListOfRows(Utf8, <<ValidRow(<<Some("a")>>)>>)
Utf8Array == PrimArray(Utf8, <<Some("a")>>)
MisuseCalls ==
    UNION {{<<"array_intersect", <<l>>>>,
            <<"array_intersect", <<l, l, l>>>>,
            <<"array_intersect", <<l, Utf8List>>>>,
            <<"array_intersect", <<l, NullArray(1)>>>>,
            <<"array_intersect", <<NullArray(1), l>>>>,
            <<"array_intersect", <<l, Utf8Array>>>>,
            <<"array_distinct", <<l, l>>>>,
            <<"array_distinct", <<l.values>>>>,
            <<"array_distinct", <<NullArray(1)>>>>,
            <<"array_has", <<l, Utf8Array>>>>,
            <<"array_has", <<l.values, l.values>>>>,
            <<"array_has_any", <<l, Utf8List>>>>,
            <<"array_has_any", <<l, NullArray(1)>>>>,
            <<"array_has_any", <<l.values, l>>>>,
            <<"array_has_all", <<l, Utf8List>>>>,
            <<"array_has_all", <<l.values, l>>>>,
            <<"array_position", <<l, Utf8Array>>>>,
            <<"array_position", <<l.values, l.values>>>>,
            <<"array_position", <<l, PrimArray(Int64, <<Some(1)>>), Utf8Array>>>>,
            <<"gen_range", <<>>>>,
            <<"gen_range", <<l.values, l.values, l.values, l.values>>>>,
            <<"gen_range", <<l>>>>} : l \in OneRowLists}

\* The dimension column of array_length: one dimension for every row.
DimensionArrays(R) ==
    {PrimArray(Int64, [k \in 1..R |-> d]) : d \in {None} \cup {Some(n) : n \in 0..3}}

\* The arguments of make_array: up to two columns of one row count, Int64 or
\* untyped null, or no column at all.
MakeArrayArgs ==
    {<<>>}
    \cup UNION {{<<c>> : c \in Int64Arrays(R) \cup {NullArray(R)}} : R \in 0..MaxRows}
    \cup UNION {{<<c, d>> : c \in Int64Arrays(R) \cup {NullArray(R)},
                            d \in Int64Arrays(R) \cup {NullArray(R)}} : R \in 0..MaxRows}

\* Columns of every element type the type check tells apart, for the functions
\* that check the element column against the list column: list columns of R
\* rows whose element type is Int64, Utf8, untyped null or List(Int64).
TypedLists(R) ==
    {ListOfRows(Int64, rows) : rows \in [1..R -> ShortRows(1)]}
    \cup {ListOfRows(Utf8, rows) : rows \in [1..R -> ShortRows("a")]}
    \cup UNION {ListColumns(R, NullArray(s)) : s \in 0..MaxRows}
    \cup UNION {{MkList(inner.dt, from_lengths([k \in 1..R |-> 1]), inner, v) :
                    v \in [1..R -> BOOLEAN]} : inner \in InnerLists(R)}

\* Element columns of R rows of type Int64, Utf8, untyped null or List(Int64).
TypedElements(R) ==
    Int64Arrays(R)
    \cup {PrimArray(Utf8, f) : f \in [1..R -> {None, Some("a")}]}
    \cup {NullArray(R)}
    \cup ListElementArrays(R)

\* The worked calls of the set functions: array_except([1,2,3,2], [2]) and
\* array_union([1,2], [2,3]), one row each.
ExceptExample ==
    <<ListOfRows(Int64, <<ValidRow(<<Some(1), Some(2), Some(3), Some(2)>>)>>),
      ListOfRows(Int64, <<ValidRow(<<Some(2)>>)>>)>>
UnionExample ==
    <<ListOfRows(Int64, <<ValidRow(<<Some(1), Some(2)>>)>>),
      ListOfRows(Int64, <<ValidRow(<<Some(2), Some(3)>>)>>)>>

\* Columns of R rows without an element type of their own: the untyped-null
\* column, and list columns whose values are untyped null.
NullTypedColumns(R) ==
    {NullArray(R)} \cup UNION {ListColumns(R, NullArray(s)) : s \in 0..1}

\* The counts given to array_remove_n and array_replace_n: negative, zero, and
\* up to one more than a row can hold.
CountDomain == {Some(n) : n \in -1..(MaxElems + 1)}

\* <<row, element, n>> cells of the remove functions.
RemoveCells == SetRows \X ElemDomain \X CountDomain
DefaultRemoveCells ==
    << <<ValidRow(<<Some(1), Some(2)>>), Some(2), Some(1)>>,
       <<NullRow(<<>>), Some(1), Some(2)>>,
       <<ValidRow(<<Some(2), Some(2)>>), Some(2), Some(0)>> >>

\* List(List(Int64)) columns of R rows over MaxElems inner rows, and the list
\* element columns paired with them: every row null, empty or [1].
NestedRemoveLists(R) == UNION {ListColumns(R, inner) : inner \in InnerLists(MaxElems)}
NestedRemoveElements(R) == {ListOfRows(Int64, [k \in 1..R |-> r]) : r \in ShortRows(1)}

\* <<row, from, to, n>> cells of the replace functions; 3 is in no row.
ReplaceCells == SetRows \X ElemDomain \X {None, Some(3)} \X CountDomain
DefaultReplaceCells ==
    << <<ValidRow(<<Some(1), Some(2)>>), Some(2), Some(3), Some(1)>>,
       <<NullRow(<<>>), Some(1), Some(3), Some(2)>>,
       <<ValidRow(<<Some(2), Some(2)>>), Some(2), None, Some(0)>> >>

\* <<value, count>> cells of array_repeat on a flat value, and on a list value.
RepeatCells == {None, Some(5)} \X CountDomain
DefaultRepeatCells == << <<Some(5), Some(2)>>, <<None, Some(1)>>, <<Some(5), Some(0)>> >>
ListRepeatCells == SetRows \X CountDomain
DefaultListRepeatCells ==
    << <<ValidRow(<<Some(1), Some(2)>>), Some(2)>>,
       <<NullRow(<<>>), Some(1)>>,
       <<ValidRow(<<>>), Some(0)>> >>
\* The worked call array_repeat(5, [2, 0, 1]): three rows.
RepeatExample ==
    <<PrimArray(Int64, <<Some(5), Some(5), Some(5)>>),
      PrimArray(Int64, <<Some(2), Some(0), Some(1)>>)>>

\* Rows sorted by array_sort, long enough to tell every order apart.
SortRows == {ValidRow(v) : v \in Seqs(ElemDomain, MaxElems + 1)} \cup {NullRow(<<>>)}
DefaultSortRows == <<ValidRow(<<Some(2), None, Some(1)>>), NullRow(<<>>), ValidRow(<<>>)>>
\* Direction and null-placement modifiers as written in a query, in any case,
\* and strings that are neither.
DirectionModifiers == {<<"A", "S", "C">>, <<"d", "e", "s", "c">>, <<"D", "e", "s", "c">>, <<"u", "p">>}
NullsModifiers == {<<"N", "U", "L", "L", "S", " ", "F", "I", "R", "S", "T">>,
                   <<"n", "u", "l", "l", "s", " ", "l", "a", "s", "t">>,
                   <<"N", "u", "l", "l", "s", " ", "L", "a", "s", "t">>,
                   <<"l", "a", "s", "t">>}
\* A modifier is a literal of the query: a column holding it in every row.
ModifierColumn(R, modifier) == PrimArray(Utf8, [k \in 1..R |-> modifier])
SortModifiers(R) ==
    {<<>>}
    \cup {<<ModifierColumn(R, d)>> : d \in {Some(m) : m \in DirectionModifiers} \cup {None}}
    \cup {<<ModifierColumn(R, Some(d)), ModifierColumn(R, n)>> :
              d \in DirectionModifiers,
              n \in {Some(m) : m \in NullsModifiers} \cup {None}}

RECURSIVE BuildList(_, _)
\* The list column of the given rows over any item type: the rows of a nested
\* item type are rows themselves.
BuildList(item_dt, rows) ==
    MkList(item_dt, from_lengths([k \in 1..Len(rows) |-> Len(rows[k].vals)]),
           IF IsListType(item_dt) THEN BuildList(Tail(item_dt), FlatVals(rows))
           ELSE PrimArray(item_dt, FlatVals(rows)),
           [k \in 1..Len(rows) |-> rows[k].valid])

\* Rows of List(Int64): null (spanning nothing or a value), empty, or holding
\* elements that differ from row to row.
LeafRows ==
    {NullRow(<<>>), NullRow(<<Some(7)>>), ValidRow(<<>>), ValidRow(<<Some(1)>>),
     ValidRow(<<Some(2), None>>)}
DefaultLeafRows == <<ValidRow(<<Some(4), Some(5)>>), ValidRow(<<>>), NullRow(<<>>)>>
\* Rows of List(List(Int64)).
MidRows ==
    {ValidRow(v) : v \in Seqs(LeafRows, MaxElems)}
    \cup {NullRow(<<>>), NullRow(<<ValidRow(<<Some(8)>>)>>)}
DefaultMidRows ==
    <<ValidRow(<<ValidRow(<<Some(6)>>), ValidRow(<<>>)>>), ValidRow(<<>>), NullRow(<<>>)>>
\* Rows of List(List(List(Int64))).
DeepRows ==
    UNION {{ValidRow(v) : v \in FocusSeqs(k, MidRows, DefaultMidRows)} : k \in 0..MaxElems}
    \cup {NullRow(<<>>)}
DefaultDeepRows ==
    <<ValidRow(<<ValidRow(<<ValidRow(<<Some(9)>>)>>)>>), ValidRow(<<>>), NullRow(<<>>)>>
\* The columns given to array_dims, array_ndims and flatten: lists of depth 1,
\* 2 and 3, and a column that is no list.
ShapeColumns(R) ==
    {BuildList(Int64, rows) : rows \in FocusSeqs(R, LeafRows, DefaultLeafRows)}
    \cup {BuildList(ListOf(Int64), rows) : rows \in FocusSeqs(R, MidRows, DefaultMidRows)}
    \cup {BuildList(ListOf(ListOf(Int64)), rows) :
              rows \in FocusSeqs(R, DeepRows, DefaultDeepRows)}
    \cup Int64Arrays(R)

\* The elements of a row of a List(List(Int64)) column, as given to
\* compare_element_to_list: one element is any row, the others are defaults.
ListCompareRows ==
    UNION {FocusSeqs(k, LeafRows, DefaultLeafRows) : k \in 0..MaxElems}

\* The columns given to align_array_dimensions: of depth 0 to 3.
AlignColumns(R) ==
    Int64Arrays(R)
    \cup {BuildList(Int64, [k \in 1..R |-> row]) : row \in LeafRows}
    \cup {BuildList(ListOf(Int64), [k \in 1..R |-> DefaultMidRows[d]]) : d \in 1..3}
    \cup {BuildList(ListOf(ListOf(Int64)), [k \in 1..R |-> DefaultDeepRows[d]]) : d \in 1..3}

(***************************************************************************)
(* The state machine.                                                      *)
(***************************************************************************)
\* The dispatcher has invoked function name with arguments a; nothing has run yet.
Invoke(name, a) ==
    /\ fn = name
    /\ args = a
    /\ result = Pending

\* The dispatcher runs function name with the pending arguments.
Run(name, res) ==
    /\ fn = name
    /\ result = Pending
    /\ result' = res
    /\ UNCHANGED <<fn, args>>

CallArrayElement == Run("array_element", array_element(args))
CallArraySlice == Run("array_slice", array_slice(args))
CallArrayPopBack == Run("array_pop_back", array_pop_back(args))
CallArrayPopFront == Run("array_pop_front", array_pop_front(args))

InitIndex ==
    \E l \in IntLists :
        \/ \E ix \in IndexArrays(l) : Invoke("array_element", <<l, ix>>)
        \/ \E b \in SliceBounds(l) : Invoke("array_slice", <<l, b[1], b[2]>>)
        \/ Invoke("array_pop_back", <<l>>)
        \/ Invoke("array_pop_front", <<l>>)
NextIndex ==
    \/ CallArrayElement
    \/ CallArraySlice
    \/ CallArrayPopBack
    \/ CallArrayPopFront
SpecIndex == InitIndex /\ [][NextIndex]_vars

CallArrayAppend == Run("array_append", array_append(args))
CallArrayPrepend == Run("array_prepend", array_prepend(args))
CallArrayLength == Run("array_length", array_length(args))
CallMakeArray == Run("make_array", make_array(args))

InitAppend ==
    \/ \E l \in IntLists \cup NestedLists \cup NullLists :
           \E e \in ElementArrays(l) :
               \/ Invoke("array_append", <<l, e>>)
               \/ Invoke("array_prepend", <<e, l>>)
    \/ \E l \in IntLists \cup NestedLists :
           \/ Invoke("array_length", <<l>>)
           \/ \E d \in DimensionArrays(ArrLen(l)) : Invoke("array_length", <<l, d>>)
    \/ \E a \in MakeArrayArgs : Invoke("make_array", a)
NextAppend ==
    \/ CallArrayAppend
    \/ CallArrayPrepend
    \/ CallArrayLength
    \/ CallMakeArray
SpecAppend == InitAppend /\ [][NextAppend]_vars

CallArrayDistinct == Run("array_distinct", array_distinct(args))
CallArrayIntersect == Run("array_intersect", array_intersect(args))
CallArrayHas == Run("array_has", array_has(args))
CallArrayHasAny == Run("array_has_any", array_has_any(args))
CallArrayHasAll == Run("array_has_all", array_has_all(args))
CallArrayPosition == Run("array_position", array_position(args))
CallGenRange ==
    /\ fn = "gen_range"
    /\ \E res \in {gen_range(args), gen_range_overflow_checked(args)} :
           Run("gen_range", res)

InitSet ==
    \E R \in 0..MaxRows :
        \/ \E rows \in [1..R -> SetRows] :
               Invoke("array_distinct", <<ListOfRows(Int64, rows)>>)
        \/ \E cells \in FocusSeqs(R, SetRows \X SetRows, DefaultSetPairs) :
               \E name \in {"array_intersect", "array_has_any", "array_has_all"} :
                   Invoke(name, <<ListOfRows(Int64, CellColumn(cells, 1)),
                                  ListOfRows(Int64, CellColumn(cells, 2))>>)
        \/ \E cells \in FocusSeqs(R, SearchCells, DefaultSearchCells) :
               \/ Invoke("array_has", <<ListOfRows(Int64, CellColumn(cells, 1)),
                                        PrimArray(Int64, CellColumn(cells, 2))>>)
               \/ Invoke("array_position", <<ListOfRows(Int64, CellColumn(cells, 1)),
                                             PrimArray(Int64, CellColumn(cells, 2))>>)
               \/ Invoke("array_position", <<ListOfRows(Int64, CellColumn(cells, 1)),
                                             PrimArray(Int64, CellColumn(cells, 2)),
                                             PrimArray(Int64, CellColumn(cells, 3))>>)
        \/ \E cells \in FocusSeqs(R, RangeCells \cup RangeEdgeCells, DefaultRangeCells) :
               LET start_array == PrimArray(Int64, [k \in 1..R |-> Some(cells[k][1])])
                   stop_array == PrimArray(Int64, CellColumn(cells, 2))
                   step_array == PrimArray(Int64, [k \in 1..R |-> Some(cells[k][3])])
               IN  \/ /\ \A k \in 1..R : cells[k] \in RangeCells
                      /\ Invoke("gen_range", <<stop_array>>)
                   \/ Invoke("gen_range", <<start_array, stop_array>>)
                   \/ Invoke("gen_range", <<start_array, stop_array, step_array>>)
        \/ \E c \in MisuseCalls : Invoke(c[1], c[2])
NextSet ==
    \/ CallArrayDistinct
    \/ CallArrayIntersect
    \/ CallArrayHas
    \/ CallArrayHasAny
    \/ CallArrayHasAll
    \/ CallArrayPosition
    \/ CallGenRange
SpecSet == InitSet /\ [][NextSet]_vars

CallArrayPositions == Run("array_positions", array_positions(args))

InitTypes ==
    \E R \in 0..MaxRows :
        \E l \in TypedLists(R) :
            \E e \in TypedElements(R) :
                \/ Invoke("array_append", <<l, e>>)
                \/ Invoke("array_prepend", <<e, l>>)
                \/ Invoke("array_position", <<l, e>>)
                \/ Invoke("array_positions", <<l, e>>)
                \/ Invoke("array_has", <<l, e>>)
NextTypes ==
    \/ CallArrayAppend
    \/ CallArrayPrepend
    \/ CallArrayPosition
    \/ CallArrayPositions
    \/ CallArrayHas
SpecTypes == InitTypes /\ [][NextTypes]_vars

CallArrayExcept == Run("array_except", array_except(args))
CallArrayUnion == Run("array_union", array_union(args))

InitMerge ==
    \/ \E R \in 0..MaxRows :
           \E cells \in FocusSeqs(R, SetRows \X SetRows, DefaultSetPairs) :
               \E name \in {"array_except", "array_union"} :
                   Invoke(name, <<ListOfRows(Int64, CellColumn(cells, 1)),
                                  ListOfRows(Int64, CellColumn(cells, 2))>>)
    \/ Invoke("array_except", ExceptExample)
    \/ Invoke("array_union", UnionExample)
    \/ \E R \in 0..MaxRows :
           \E rows \in [1..R -> ShortRows(1)] :
               \E n \in NullTypedColumns(R) :
                   \E name \in {"array_except", "array_union", "array_intersect"} :
                       \/ Invoke(name, <<n, ListOfRows(Int64, rows)>>)
                       \/ Invoke(name, <<ListOfRows(Int64, rows), n>>)
                       \/ Invoke(name, <<n, n>>)
NextMerge ==
    \/ CallArrayExcept
    \/ CallArrayUnion
    \/ CallArrayIntersect
SpecMerge == InitMerge /\ [][NextMerge]_vars

CallArrayRemove == Run("array_remove", array_remove(args))
CallArrayRemoveN == Run("array_remove_n", array_remove_n(args))
CallArrayRemoveAll == Run("array_remove_all", array_remove_all(args))
CallArrayReplace == Run("array_replace", array_replace(args))
CallArrayReplaceN == Run("array_replace_n", array_replace_n(args))
CallArrayReplaceAll == Run("array_replace_all", array_replace_all(args))

InitEdit ==
    \E R \in 0..MaxRows :
        \/ \E cells \in FocusSeqs(R, RemoveCells, DefaultRemoveCells) :
               LET list_array == ListOfRows(Int64, CellColumn(cells, 1))
                   element_array == PrimArray(Int64, CellColumn(cells, 2))
               IN  \/ Invoke("array_remove", <<list_array, element_array>>)
                   \/ Invoke("array_remove_all", <<list_array, element_array>>)
                   \/ Invoke("array_remove_n",
                             <<list_array, element_array,
                               PrimArray(Int64, CellColumn(cells, 3))>>)
        \/ \E l \in NestedRemoveLists(R) :
               \E e \in NestedRemoveElements(R) :
                   \/ Invoke("array_remove", <<l, e>>)
                   \/ Invoke("array_remove_all", <<l, e>>)
                   \/ \E c \in CountDomain :
                          Invoke("array_remove_n",
                                 <<l, e, PrimArray(Int64, [k \in 1..R |-> c])>>)
        \/ \E cells \in FocusSeqs(R, ReplaceCells, DefaultReplaceCells) :
               LET list_array == ListOfRows(Int64, CellColumn(cells, 1))
                   from_array == PrimArray(Int64, CellColumn(cells, 2))
                   to_array == PrimArray(Int64, CellColumn(cells, 3))
               IN  \/ Invoke("array_replace", <<list_array, from_array, to_array>>)
                   \/ Invoke("array_replace_all", <<list_array, from_array, to_array>>)
                   \/ Invoke("array_replace_n",
                             <<list_array, from_array, to_array,
                               PrimArray(Int64, CellColumn(cells, 4))>>)
NextEdit ==
    \/ CallArrayRemove
    \/ CallArrayRemoveN
    \/ CallArrayRemoveAll
    \/ CallArrayReplace
    \/ CallArrayReplaceN
    \/ CallArrayReplaceAll
SpecEdit == InitEdit /\ [][NextEdit]_vars

CallArrayRepeat ==
    /\ fn = "array_repeat"
    /\ \E res \in array_repeat(args) : Run("array_repeat", res)

CallArraySort == Run("array_sort", array_sort(args))

InitArrange ==
    \/ \E R \in 0..MaxRows :
           \/ \E cells \in FocusSeqs(R, RepeatCells, DefaultRepeatCells) :
                  Invoke("array_repeat", <<PrimArray(Int64, CellColumn(cells, 1)),
                                           PrimArray(Int64, CellColumn(cells, 2))>>)
           \/ \E cells \in FocusSeqs(R, ListRepeatCells, DefaultListRepeatCells) :
                  Invoke("array_repeat", <<ListOfRows(Int64, CellColumn(cells, 1)),
                                           PrimArray(Int64, CellColumn(cells, 2))>>)
    \/ Invoke("array_repeat", RepeatExample)
    \/ \E R \in 0..MaxRows :
           \E rows \in FocusSeqs(R, SortRows, DefaultSortRows) :
               \E modifiers \in SortModifiers(R) :
                   Invoke("array_sort", <<ListOfRows(Int64, rows)>> \o modifiers)
NextArrange ==
    \/ CallArrayRepeat
    \/ CallArraySort
SpecArrange == InitArrange /\ [][NextArrange]_vars


CallArrayDims == Run("array_dims", array_dims(args))
CallArrayNdims == Run("array_ndims", array_ndims(args))
CallFlatten == Run("flatten", flatten(args))

InitShape ==
    \E R \in 0..MaxRows :
        \E column \in ShapeColumns(R) :
            \/ Invoke("array_dims", <<column>>)
            \/ Invoke("array_ndims", <<column>>)
            \/ Invoke("flatten", <<column>>)
NextShape ==
    \/ CallArrayDims
    \/ CallArrayNdims
    \/ CallFlatten
SpecShape == InitShape /\ [][NextShape]_vars


CallCompareElementToList ==
    Run("compare_element_to_list",
        compare_element_to_list(args[1], args[2], args[3], args[4]))
CallAlignArrayDimensions ==
    Run("align_array_dimensions", Ok(align_array_dimensions(args)))

\* The helper functions, applied to arguments of their own.
InitHelpers ==
    \/ \E R \in 1..MaxRows, row_index \in 0..(MaxRows - 1), eq \in BOOLEAN :
           /\ row_index < R
           /\ \/ \E row \in Seqs(ElemDomain, MaxElems + 1) :
                     \E elements \in [1..R -> ElemDomain] :
                         Invoke("compare_element_to_list",
                                <<PrimArray(Int64, row), PrimArray(Int64, elements),
                                  row_index, eq>>)
              \/ \E row \in ListCompareRows :
                     \E elements \in FocusSeqs(R, LeafRows, DefaultLeafRows) :
                         Invoke("compare_element_to_list",
                                <<BuildList(Int64, row), BuildList(Int64, elements),
                                  row_index, eq>>)
    \/ \E R1 \in 0..MaxRows, R2 \in 0..MaxRows :
           \E a \in AlignColumns(R1) :
               \/ R2 = 0 /\ Invoke("align_array_dimensions", <<a>>)
               \/ \E b \in AlignColumns(R2) :
                      \/ Invoke("align_array_dimensions", <<a, b>>)
                      \/ /\ R1 = 1
                         /\ \E c \in AlignColumns(1) :
                                Invoke("align_array_dimensions", <<a, b, c>>)
NextHelpers ==
    \/ CallCompareElementToList
    \/ CallAlignArrayDimensions
SpecHelpers == InitHelpers /\ [][NextHelpers]_vars


\* Every function of the model, invoked on any of its inputs.
Init == InitIndex \/ InitAppend \/ InitSet \/ InitTypes \/ InitMerge \/ InitEdit
            \/ InitArrange \/ InitShape \/ InitHelpers
Next == NextIndex \/ NextAppend \/ NextSet \/ NextTypes \/ NextMerge \/ NextEdit
            \/ NextArrange \/ NextShape \/ NextHelpers
Spec == Init /\ [][Next]_vars

(***************************************************************************)
(* Claims.                                                                 *)
(***************************************************************************)
Returned == result.kind # "pending"
\* The elements of row i of the first argument and of the returned list column.
InRow(i) == value(args[1], i).vals
OutRow(i) == value(result.col, i).vals
InRows == 0..(ArrLen(args[1]) - 1)

\* The adjusted bounds as spec.md section 4.4 states them.
SpecFrom(f, len) ==
    IF f = None THEN 0 ELSE IF f[1] < 0 THEN f[1] + len ELSE IF f[1] - 1 > 0 THEN f[1] - 1 ELSE 0
SpecTo(t, len) ==
    IF t = None THEN len - 1
    ELSE IF t[1] < 0 THEN t[1] + len - 1 ELSE IF t[1] - 1 < len - 1 THEN t[1] - 1 ELSE len - 1

\* C4: for a non-null row of length len >= 1, array_slice returns exactly the
\* elements at the adjusted positions from..to (from+len or max(from-1,0);
\* to+len-1 or min(to-1,len-1); 0 and len-1 for null bounds), and an empty, non-null
\* row when an adjusted bound is outside [0,len) or from > to.
C4_SliceAdjustedBounds ==
    (fn = "array_slice" /\ Returned) =>
        /\ result.kind = "ok"
        /\ ArrLen(result.col) = ArrLen(args[1])
        /\ \A i \in InRows :
              (args[1].valid[i + 1] /\ RowLen(args[1], i) >= 1) =>
                  LET len == RowLen(args[1], i)
                      f == SpecFrom(args[2].vals[i + 1], len)
                      t == SpecTo(args[3].vals[i + 1], len)
                  IN  /\ result.col.valid[i + 1]
                      /\ IF 0 <= f /\ f < len /\ 0 <= t /\ t < len /\ f <= t
                         THEN /\ Len(OutRow(i)) = t - f + 1
                              /\ \A k \in 1..(t - f + 1) : OutRow(i)[k] = InRow(i)[f + k]
                         ELSE OutRow(i) = <<>>

\* array_slice([1,2,3,4,5], 2, 4) has returned [2,3,4].
C4_Witness ==
    /\ fn = "array_slice"
    /\ args = <<MkList(Int64, <<0, 5>>, IdentityValues(5), <<TRUE>>),
                PrimArray(Int64, <<Some(2)>>), PrimArray(Int64, <<Some(4)>>)>>
    /\ result.kind = "ok"
    /\ OutRow(0) = <<Some(2), Some(3), Some(4)>>

C5_Call ==
    /\ fn = "array_slice"
    /\ args = <<MkList(Int64, <<0, 3>>, IdentityValues(3), <<TRUE>>),
                PrimArray(Int64, <<Some(-2)>>), PrimArray(Int64, <<Some(-1)>>)>>

\* C5 as claimed: array_slice([1,2,3], -2, -1) returns [2,3].
C5_Original ==
    (C5_Call /\ Returned) => (result.kind = "ok" /\ OutRow(0) = <<Some(2), Some(3)>>)

\* C5 as amended: array_slice([1,2,3], -2, -1) returns [2]; a negative `to` is
\* exclusive, so the bounds -2 and -1 select the last element but one only.
C5_SliceNegativeBounds ==
    (C5_Call /\ Returned) =>
        /\ result.kind = "ok"
        /\ ArrLen(result.col) = 1
        /\ result.col.valid[1]
        /\ OutRow(0) = <<Some(2)>>

C5_Witness == C5_Call /\ result.kind = "ok" /\ Len(OutRow(0)) = 1

\* Every row is sliced from 1 to its own length.
WholeRowBounds ==
    \A i \in InRows :
        /\ args[2].vals[i + 1] = Some(1)
        /\ args[3].vals[i + 1] = Some(RowLen(args[1], i))

\* C6 as claimed: array_slice(a, 1, n) equals a: same rows, same elements in the
\* same order, same row nullness.
C6_Original ==
    (fn = "array_slice" /\ Returned /\ WholeRowBounds) =>
        /\ result.kind = "ok"
        /\ ArrLen(result.col) = ArrLen(args[1])
        /\ \A i \in InRows :
              /\ result.col.valid[i + 1] = args[1].valid[i + 1]
              /\ args[1].valid[i + 1] => OutRow(i) = InRow(i)

\* C6 as amended: for every non-null list a of length n, array_slice(a, 1, n)
\* is a non-null row with a's elements in a's order, and the result has as many
\* rows as the input (a null row does not come back null).
C6_SliceWholeRow ==
    (fn = "array_slice" /\ Returned /\ WholeRowBounds) =>
        /\ result.kind = "ok"
        /\ ArrLen(result.col) = ArrLen(args[1])
        /\ \A i \in InRows :
              args[1].valid[i + 1] => (result.col.valid[i + 1] /\ OutRow(i) = InRow(i))

\* Two non-null rows, of lengths 2 and 3, have been sliced from 1 to their lengths.
C6_Witness ==
    /\ fn = "array_slice" /\ result.kind = "ok" /\ WholeRowBounds
    /\ args[1].offsets = <<0, 2, 5>>
    /\ args[1].valid = <<TRUE, TRUE>>

\* C7 as claimed: array_element is 1-based; a negative index selects position
\* len+index, a positive one index-1; the result is the element there, and null
\* when index is 0, the position is outside [0,len) or the row is null or empty.
C7_Original ==
    (fn = "array_element" /\ Returned) =>
        /\ result.kind = "ok"
        /\ ArrLen(result.col) = ArrLen(args[1])
        /\ \A i \in InRows :
              LET len == RowLen(args[1], i)
                  index == args[2].vals[i + 1][1]
                  pos == IF index < 0 THEN len + index ELSE index - 1
              IN  result.col.vals[i + 1] =
                     IF \/ ~args[1].valid[i + 1]
                        \/ len = 0
                        \/ index = 0
                        \/ pos < 0
                        \/ pos >= len
                     THEN None
                     ELSE InRow(i)[pos + 1]

\* C8 as claimed: a row the null mask marks null gives null from array_element
\* and an empty row from array_slice, whatever the length of its offset span.
C8_Original ==
    (fn \in {"array_element", "array_slice"} /\ Returned) =>
        /\ result.kind = "ok"
        /\ \A i \in InRows :
              ~args[1].valid[i + 1] =>
                  IF fn = "array_element" THEN result.col.vals[i + 1] = None
                  ELSE OutRow(i) = <<>>

\* The list column and the element column of an array_append or array_prepend call.
AppendList == IF fn = "array_prepend" THEN args[2] ELSE args[1]
AppendElement == IF fn = "array_prepend" THEN args[1] ELSE args[2]
\* The element has the list's element type, flat (Int64) or nested (List(Int64)).
CompatibleElement ==
    /\ value_type(AppendList) # NullType
    /\ AppendElement.dt = value_type(AppendList)

\* C9: for every non-null list row a and every element x of the list's element
\* type, flat or nested, array_append(a, x) is a non-null row holding a's
\* elements in order followed by x, and array_length of it is array_length(a) + 1.
C9_AppendGrowsByOne ==
    (fn = "array_append" /\ Returned /\ CompatibleElement) =>
        \A i \in InRows :
               ~is_null(args[1], i) =>
                   /\ result.kind = "ok"
                   /\ ArrLen(result.col) = ArrLen(args[1])
                   /\ array_length(<<result.col>>).kind = "ok"
                   /\ ~is_null(result.col, i)
                   /\ Elems(value(result.col, i))
                          = Elems(value(args[1], i)) \o Elems(SliceArr(args[2], i, 1))
                   /\ array_length(<<result.col>>).col.vals[i + 1]
                          = Some(array_length(<<args[1]>>).col.vals[i + 1][1] + 1)

\* A nested list of two rows, the second [[1], [2]], has had the list [0] appended
\* to the second row, which has length 3 now.
C9_Witness ==
    /\ fn = "array_append"
    /\ result.kind = "ok"
    /\ IsListType(value_type(args[1]))
    /\ ArrLen(args[1]) = 2
    /\ ~is_null(args[1], 1)
    /\ Elems(value(args[1], 1)) = <<Some(<<Some(1)>>), Some(<<Some(2)>>)>>
    /\ Elems(value(result.col, 1))
           = <<Some(<<Some(1)>>), Some(<<Some(2)>>), Some(<<Some(0)>>)>>
    /\ array_length(<<result.col>>).col.vals[2] = Some(3)

\* C10 as stated, for element columns of a concrete type: on a list column of
\* element type Null, array_append(list, element) and array_prepend(element, list)
\* succeed and return one row per input row, each a non-null list holding just
\* that row's element.
C10_Original ==
    (/\ fn \in {"array_append", "array_prepend"}
     /\ Returned
     /\ value_type(AppendList) = NullType
     /\ AppendElement.dt = Int64) =>
        /\ result.kind = "ok"
        /\ ArrLen(result.col) = ArrLen(AppendElement)
        /\ \A i \in 0..(ArrLen(AppendElement) - 1) :
               /\ ~is_null(result.col, i)
               /\ Elems(value(result.col, i)) = Elems(SliceArr(AppendElement, i, 1))

\* What the code does on a List(Null) column and an Int64 element column:
\* array_prepend builds the single-element lists, array_append is a planning error.
C10_PrependOnly ==
    (/\ fn \in {"array_append", "array_prepend"}
     /\ Returned
     /\ value_type(AppendList) = NullType
     /\ AppendElement.dt = Int64) =>
        IF fn = "array_append"
        THEN result = Err("plan", "array_append received incompatible types")
        ELSE /\ result.kind = "ok"
             /\ ArrLen(result.col) = ArrLen(AppendElement)
             /\ \A i \in 0..(ArrLen(AppendElement) - 1) :
                    /\ ~is_null(result.col, i)
                    /\ Elems(value(result.col, i)) = Elems(SliceArr(AppendElement, i, 1))

\* The functions of the model that return a list column.
ListReturning ==
    {"array_slice", "array_pop_back", "array_pop_front", "array_append", "array_prepend",
     "array_distinct", "array_intersect", "gen_range", "make_array"}

\* The call has the arguments its function expects: their number, their types
\* (list columns of one element type, an element of the list's element type,
\* Int64 bounds) and, for gen_range, no zero step.
ProperCall ==
    CASE fn \in {"array_append", "array_prepend"} -> CompatibleElement
      [] fn = "array_distinct" -> Len(args) = 1 /\ IsListArr(args[1])
      [] fn = "array_intersect" ->
             /\ Len(args) = 2
             /\ IsListArr(args[1])
             /\ args[2].dt = args[1].dt
      [] fn = "gen_range" ->
             /\ Len(args) \in 1..3
             /\ \A k \in 1..Len(args) : args[k].dt = Int64
             /\ Len(args) = 3 => \A k \in 1..ArrLen(args[3]) : args[3].vals[k] # Some(0)
      [] fn = "make_array" -> Len(args) >= 1
      [] OTHER -> IsListArr(args[1])

\* C1: every function that returns a list column, called with columns of R rows
\* that satisfy the list-column invariants, returns a column whose offsets start
\* at 0, never decrease, have exactly R + 1 entries and end at the length of the
\* values buffer.
C1_Original ==
    (Returned /\ fn \in ListReturning /\ ProperCall) =>
        /\ result.kind = "ok"
        /\ IsListArr(result.col)
        /\ result.col.offsets[1] = 0
        /\ \A k \in 1..(Len(result.col.offsets) - 1) :
               result.col.offsets[k] <= result.col.offsets[k + 1]
        /\ Len(result.col.offsets) = ArrLen(args[1]) + 1
        /\ Last(result.col.offsets) = ArrLen(result.col.values)

\* C2: whatever the function, the column returned for a batch of R rows has
\* exactly R rows (null rows and untyped-null columns included): no row is
\* dropped, merged or shifted.
C2_Original ==
    (Returned /\ result.kind = "ok" /\ Len(args) >= 1) =>
        ArrLen(result.col) = ArrLen(args[1])

\* The calls of C3: a start index out of bounds, a zero step, a wrong number of
\* arguments, operands of different element types.
StartOutOfBounds ==
    /\ fn = "array_position"
    /\ Len(args) = 3
    /\ IsListArr(args[1])
    /\ args[2].dt = value_type(args[1])
    /\ args[3].dt = Int64
    /\ \E i \in InRows :
           /\ ~is_null(args[1], i)
           /\ RawValue(args[3].vals[i + 1]) \notin 1..ArrLen(value(args[1], i))
ZeroStep ==
    /\ fn = "gen_range"
    /\ Len(args) = 3
    /\ \A k \in 1..3 : args[k].dt = Int64
    /\ \E k \in 1..ArrLen(args[3]) : args[3].vals[k] = Some(0)
WrongArgumentCount ==
    \/ fn = "array_intersect" /\ Len(args) # 2
    \/ fn = "array_distinct" /\ Len(args) # 1
    \/ fn = "gen_range" /\ Len(args) \notin 1..3
MismatchedElementTypes ==
    /\ fn = "array_intersect"
    /\ Len(args) = 2
    /\ IsListArr(args[1])
    /\ IsListArr(args[2])
    /\ value_type(args[1]) # value_type(args[2])

\* C3: no call ends in an internal error or a panic because of what the user
\* passed: a start index out of bounds and a zero step are execution errors, a
\* wrong number of arguments and operands of different element types are
\* planning errors.
C3_Original ==
    (/\ Returned
     /\ StartOutOfBounds \/ ZeroStep \/ WrongArgumentCount \/ MismatchedElementTypes) =>
        /\ result.kind \notin {"internal", "panic"}
        /\ StartOutOfBounds => result.kind = "execution"
        /\ ZeroStep => result.kind = "execution"
        /\ WrongArgumentCount => result.kind = "plan"
        /\ MismatchedElementTypes => result.kind = "plan"

\* The functions that run check_datatypes on a list column and an element column.
TypeChecked == {"array_append", "array_prepend", "array_position", "array_positions",
                "array_has"}
\* The list column and the element column of a call of one of them.
CheckedList == IF fn = "array_prepend" THEN args[2] ELSE args[1]
CheckedElement == IF fn = "array_prepend" THEN args[1] ELSE args[2]
IncompatibleTypes == Err("plan", fn \o " received incompatible types")
TypeCheckedCall ==
    /\ fn \in TypeChecked
    /\ Returned
    /\ Len(args) >= 2
    /\ IsListArr(CheckedList)

\* C11 as stated: in each of the five functions, an element column whose type is
\* neither the list's element type nor the untyped-null type yields the planning
\* error "<function> received incompatible types" and no output column.
C11_Original ==
    TypeCheckedCall
        => (/\ CheckedElement.dt # value_type(CheckedList)
            /\ CheckedElement.dt # NullType
            => result = IncompatibleTypes)

\* C11: array_append, array_position, array_positions and array_has return the
\* planning error "<function> received incompatible types", and no column,
\* exactly when the element column's type is neither the list's element type nor
\* the untyped-null type; array_prepend, which hands the check the element
\* column first, returns it exactly when the list's element type is neither the
\* element column's type nor the untyped-null type.
C11_IncompatibleTypes ==
    TypeCheckedCall
        => IF fn = "array_prepend"
           THEN result = IncompatibleTypes
                    <=> /\ value_type(CheckedList) # CheckedElement.dt
                        /\ value_type(CheckedList) # NullType
           ELSE result = IncompatibleTypes
                    <=> /\ CheckedElement.dt # value_type(CheckedList)
                        /\ CheckedElement.dt # NullType

\* C11 witness: array_append has refused a Utf8 element column for a List(Int64)
\* column of at least one row.
C11_Witness ==
    /\ fn = "array_append"
    /\ Len(args) = 2
    /\ IsListArr(args[1])
    /\ ArrLen(args[1]) > 0
    /\ value_type(args[1]) = Int64
    /\ args[2].dt = Utf8
    /\ result = Err("plan", "array_append received incompatible types")

\* out holds the distinct elements of in in ascending order, a null first: every
\* element of in is in out and conversely, and out is strictly ascending, so no
\* element, null included, is in it twice.
SortedDistinctOf(out, in) ==
    /\ {out[k] : k \in 1..Len(out)} = {in[k] : k \in 1..Len(in)}
    /\ \A k \in 1..(Len(out) - 1) : RowLess(out[k], out[k + 1])

DistinctCall ==
    /\ fn = "array_distinct"
    /\ Returned
    /\ Len(args) = 1
    /\ IsListArr(args[1])

\* C12: array_distinct returns, for every row, the row's distinct elements in
\* ascending order with no duplicates (a null first, two nulls being duplicates),
\* and array_distinct of what it returns is what it returns.
C12_Original ==
    DistinctCall =>
        /\ \A i \in InRows :
               ~is_null(args[1], i) =>
                   /\ result.kind = "ok"
                   /\ i < ArrLen(result.col)
                   /\ SortedDistinctOf(OutRow(i), InRow(i))
        /\ result.kind = "ok" => array_distinct(<<result.col>>) = result

\* The set of the elements of a row, a null element included.
ElemSet(vals) == {vals[k] : k \in 1..Len(vals)}
\* The elements of row i of the second argument.
SubRow(i) == value(args[2], i).vals

HasAllAnyCall ==
    /\ fn \in {"array_has_all", "array_has_any"}
    /\ Returned
    /\ Len(args) = 2
    /\ IsListArr(args[1])
    /\ args[2].dt = args[1].dt
    /\ ArrLen(args[2]) = ArrLen(args[1])

\* C13: for every pair of non-null rows, array_has_all is true exactly when every
\* element of the second row occurs in the first (so it is true for an empty
\* second row) and array_has_any is true exactly when the two rows share an
\* element, whatever the order and the repeats of the elements.
C13_Original ==
    HasAllAnyCall =>
        \A i \in InRows :
               (~is_null(args[1], i) /\ ~is_null(args[2], i)) =>
                   /\ result.kind = "ok"
                   /\ i < ArrLen(result.col)
                   /\ result.col.vals[i + 1] =
                          Some(IF fn = "array_has_all"
                               THEN ElemSet(SubRow(i)) \subseteq ElemSet(InRow(i))
                               ELSE ElemSet(SubRow(i)) \cap ElemSet(InRow(i)) # {})

\* The elements of a that are not in b, each at its first position in a only.
ExceptOf(a, b) ==
    LET first(k) == a[k] \notin ElemSet(b) /\ \A j \in 1..(k - 1) : a[j] # a[k]
        kept == SelectSeq([k \in 1..Len(a) |-> k], first)
    IN  [n \in 1..Len(kept) |-> a[kept[n]]]

\* A call of a two-list function on list columns of one type and one row count.
PairedCall(name) ==
    /\ fn = name
    /\ Returned
    /\ Len(args) = 2
    /\ IsListArr(args[1])
    /\ args[2].dt = args[1].dt
    /\ ArrLen(args[2]) = ArrLen(args[1])

\* C14: for every paired row, array_except(a, b) returns the elements of a that
\* do not occur in b, each once at its first occurrence, in a's order, whatever
\* the other rows of the batch hold, and the result's null mask is a's null mask.
\* A row's elements are the values its offsets span.
C14_ExceptKeepsOrder ==
    PairedCall("array_except") =>
        /\ result.kind = "ok"
        /\ ArrLen(result.col) = ArrLen(args[1])
        /\ result.col.valid = args[1].valid
        /\ \A i \in InRows : OutRow(i) = ExceptOf(InRow(i), SubRow(i))

\* C14 witness: array_except([1,2,3,2], [2]) has returned [1,3].
C14_Witness ==
    /\ fn = "array_except"
    /\ args = ExceptExample
    /\ result.kind = "ok"
    /\ OutRow(0) = <<Some(1), Some(3)>>

\* The distinct elements of a, then those of b not in a, each at its first
\* position only.
UnionOf(a, b) == ExceptOf(a \o b, <<>>)

C16_Original ==
    PairedCall("array_intersect") =>
        \A i \in InRows :
            (~is_null(args[1], i) /\ ~is_null(args[2], i)) =>
                   /\ result.kind = "ok"
                   /\ i < ArrLen(result.col)
                   /\ ElemSet(OutRow(i)) = ElemSet(InRow(i)) \cap ElemSet(SubRow(i))
                   /\ \A k \in 1..(Len(OutRow(i)) - 1) : RowLess(OutRow(i)[k], OutRow(i)[k + 1])

MergeCall ==
    /\ fn \in {"array_union", "array_except", "array_intersect"}
    /\ Returned
    /\ Len(args) = 2
\* Exactly one argument is a list of untyped nulls, the other a list of another type.
OneNullList ==
    /\ IsListArr(args[1])
    /\ IsListArr(args[2])
    /\ (value_type(args[1]) = NullType) # (value_type(args[2]) = NullType)

PositionCall ==
    /\ fn = "array_position"
    /\ Returned
    /\ Len(args) \in 2..3
    /\ IsListArr(args[1])
    /\ args[2].dt = value_type(args[1])
    /\ ArrLen(args[2]) = ArrLen(args[1])
    /\ Len(args) = 3 => (args[3].dt = Int64 /\ ArrLen(args[3]) = ArrLen(args[1]))
\* The 1-based start of row i, 1 when the call has no start argument.
StartOf(i) == IF Len(args) = 3 THEN RawValue(args[3].vals[i + 1]) ELSE 1
\* Row i is neither null nor empty.
Searched(i) == ~is_null(args[1], i) /\ Len(InRow(i)) > 0
\* The positions of row i, from its start on, that hold the paired element.
Matches(i) == {p \in StartOf(i)..Len(InRow(i)) : InRow(i)[p] = args[2].vals[i + 1]}

\* C18: array_position fails, returning no column, when a row that is neither
\* null nor empty has its start outside 1..len; otherwise every row's result is
\* the smallest position from its start on that holds the paired element, null
\* when there is none, and null for a null row and for an empty row.
C18_Original ==
    PositionCall =>
        IF \E i \in InRows : Searched(i) /\ StartOf(i) \notin 1..Len(InRow(i))
        THEN result.kind \notin {"ok", "panic"}
        ELSE /\ result.kind = "ok"
             /\ ArrLen(result.col) = ArrLen(args[1])
             /\ \A i \in InRows :
                    result.col.vals[i + 1] =
                        IF Searched(i) /\ Matches(i) # {}
                        THEN Some(CHOOSE p \in Matches(i) : \A q \in Matches(i) : p <= q)
                        ELSE None

\* What row i of a list column holds, for flat and nested element types.
RowElems(col, i) == Elems(value(col, i))
\* The number of positions before p where vals holds e.
Earlier(vals, e, p) == Cardinality({q \in 1..(p - 1) : vals[q] = e})

RemoveCall ==
    /\ fn \in {"array_remove", "array_remove_n", "array_remove_all"}
    /\ Returned
    /\ Len(args) = (IF fn = "array_remove_n" THEN 3 ELSE 2)
    /\ IsListArr(args[1])
    /\ args[2].dt = value_type(args[1])
    /\ ArrLen(args[2]) = ArrLen(args[1])
    /\ fn = "array_remove_n" =>
           /\ args[3].dt = Int64
           /\ ArrLen(args[3]) = ArrLen(args[1])
           /\ \A k \in 1..ArrLen(args[3]) : args[3].vals[k] # None
\* The n of row i: 1 for array_remove, the row's length, which no count of
\* matches exceeds, for array_remove_all, the argument for array_remove_n.
RemoveCount(i) ==
    IF fn = "array_remove" THEN 1
    ELSE IF fn = "array_remove_all" THEN ArrLen(value(args[1], i))
    ELSE args[3].vals[i + 1][1]
\* Row i without the first n elements equal to the paired element.
RemoveOf(i) ==
    LET row == RowElems(args[1], i)
        e == Elems(args[2])[i + 1]
        stays(p) == ~(row[p] = e /\ Earlier(row, e, p) < RemoveCount(i))
        kept == SelectSeq([p \in 1..Len(row) |-> p], stays)
    IN  [k \in 1..Len(kept) |-> row[kept[k]]]

\* C19: for every non-null row, array_remove (n = 1), array_remove_all (n
\* unbounded) and array_remove_n (n the row's argument) return the row without
\* its first min(max(n, 0), k) elements equal to the paired element, k being the
\* number of such elements, every other element, null elements included, kept
\* in order; a null row stays null.
C19_Original ==
    RemoveCall =>
        /\ result.kind = "ok"
        /\ ArrLen(result.col) = ArrLen(args[1])
        /\ result.col.valid = args[1].valid
        /\ \A i \in InRows :
               ~is_null(args[1], i) => RowElems(result.col, i) = RemoveOf(i)

ReplaceCall ==
    /\ fn \in {"array_replace", "array_replace_n", "array_replace_all"}
    /\ Returned
    /\ Len(args) = (IF fn = "array_replace_n" THEN 4 ELSE 3)
    /\ IsListArr(args[1])
    /\ args[2].dt = value_type(args[1])
    /\ args[3].dt = value_type(args[1])
    /\ ArrLen(args[2]) = ArrLen(args[1])
    /\ ArrLen(args[3]) = ArrLen(args[1])
    /\ fn = "array_replace_n" =>
           /\ args[4].dt = Int64
           /\ ArrLen(args[4]) = ArrLen(args[1])
           /\ \A k \in 1..ArrLen(args[4]) : args[4].vals[k] # None
\* The n of row i: 1 for array_replace, the row's length, which no count of
\* matches exceeds, for array_replace_all, the argument for array_replace_n.
ReplaceCount(i) ==
    IF fn = "array_replace" THEN 1
    ELSE IF fn = "array_replace_all" THEN ArrLen(value(args[1], i))
    ELSE args[4].vals[i + 1][1]
\* Row i with `to` at the first n positions that hold `from`.
ReplaceOf(i) ==
    LET row == RowElems(args[1], i)
        from == Elems(args[2])[i + 1]
        to == Elems(args[3])[i + 1]
    IN  [p \in 1..Len(row) |->
            IF row[p] = from /\ Earlier(row, from, p) < ReplaceCount(i) THEN to ELSE row[p]]

\* C20: for every non-null row, array_replace (n = 1), array_replace_all (n
\* unbounded) and array_replace_n (n the row's argument) return a row of the
\* same length that holds `to` at exactly the first min(max(n, 0), k) positions
\* whose element equals `from`, k being the number of such positions, and the
\* original element at every other position; a null row stays null.
C20_Original ==
    ReplaceCall =>
        /\ result.kind = "ok"
        /\ ArrLen(result.col) = ArrLen(args[1])
        /\ result.col.valid = args[1].valid
        /\ \A i \in InRows :
               ~is_null(args[1], i) => RowElems(result.col, i) = ReplaceOf(i)

RepeatCall ==
    /\ fn = "array_repeat"
    /\ Returned
    /\ Len(args) = 2
    /\ args[2].dt = Int64
    /\ ArrLen(args[2]) = ArrLen(args[1])
    /\ \A k \in 1..ArrLen(args[2]) : args[2].vals[k] # None

\* C21: for every row, array_repeat returns a list of exactly max(count, 0)
\* copies of the row's value, a null value repeated as nulls; a count of 0 or
\* below gives a row of length 0 and the call ends normally.
C21_Original ==
    RepeatCall =>
        \A i \in InRows :
            /\ result.kind = "ok"
            /\ i < ArrLen(result.col)
            /\ ~is_null(result.col, i)
            /\ RowElems(result.col, i) =
                   [c \in 1..Max(args[2].vals[i + 1][1], 0) |-> Elems(args[1])[i + 1]]

SameIgnoringCase(s, t) == Len(s) = Len(t) /\ to_uppercase(s) = to_uppercase(t)
OneOf(s, spellings) == \E t \in spellings : SameIgnoringCase(s, t)

\* A call of array_sort on a list column with no modifier, a direction, or a
\* direction and a null placement, each a literal that names one of its values.
SortCall ==
    /\ fn = "array_sort"
    /\ Returned
    /\ Len(args) \in 1..3
    /\ IsListArr(args[1])
    /\ \A k \in 2..Len(args) :
           /\ args[k].dt = Utf8
           /\ ArrLen(args[k]) = ArrLen(args[1])
           /\ \A j \in 1..ArrLen(args[k]) : args[k].vals[j] # None
    /\ Len(args) >= 2 =>
           \A j \in 1..ArrLen(args[2]) : OneOf(args[2].vals[j][1], {ASC, DESC})
    /\ Len(args) >= 3 =>
           \A j \in 1..ArrLen(args[3]) : OneOf(args[3].vals[j][1], {NULLS_FIRST, NULLS_LAST})

SortDescending(i) == Len(args) >= 2 /\ SameIgnoringCase(args[2].vals[i + 1][1], DESC)
SortNullsLast(i) == Len(args) >= 3 /\ SameIgnoringCase(args[3].vals[i + 1][1], NULLS_LAST)

Occurrences(seq, v) == Cardinality({k \in 1..Len(seq) : seq[k] = v})

\* The elements out are those of in, ordered by the direction with the null
\* elements together at the requested end.
SortedAs(out, in, descending, nulls_last) ==
    /\ Len(out) = Len(in)
    /\ \A k \in 1..Len(in) : Occurrences(out, in[k]) = Occurrences(in, in[k])
    /\ \A j, k \in 1..Len(out) :
           j < k =>
               /\ out[j] # None /\ out[k] # None =>
                      IF descending THEN out[j][1] >= out[k][1] ELSE out[j][1] <= out[k][1]
               /\ IF nulls_last THEN out[j] = None => out[k] = None
                  ELSE out[k] = None => out[j] = None

\* C22: every non-null row comes back as a permutation of its elements in
\* ascending order, descending with DESC, null elements first, last with NULLS
\* LAST; ASC and NULLS FIRST are the defaults, the modifiers are matched
\* whatever their case, a null row stays null and rows keep their lengths.
C22_Original ==
    SortCall =>
        \A i \in InRows :
            /\ result.kind = "ok"
            /\ i < ArrLen(result.col)
            /\ is_null(result.col, i) = is_null(args[1], i)
            /\ ~is_null(args[1], i) =>
                   SortedAs(RowElems(result.col, i), RowElems(args[1], i),
                            SortDescending(i), SortNullsLast(i))

LengthCall ==
    /\ fn = "array_length"
    /\ Returned
    /\ Len(args) \in 1..2
    /\ IsListArr(args[1])
    /\ Len(args) = 2 => args[2].dt = Int64 /\ ArrLen(args[2]) = ArrLen(args[1])

\* The dimension asked of row i: 1 when no dimension column is given.
DimensionOf(i) == IF Len(args) = 1 THEN Some(1) ELSE args[2].vals[i + 1]

RECURSIVE LengthAt(_, _)
\* The element counts a row v can report at dimension d >= 1, descending into
\* the first element; where there is no first element, none or zero elements.
LengthAt(v, d) ==
    IF d = 1 THEN {Some(ArrLen(v))}
    ELSE IF ArrLen(v) = 0 THEN {None, Some(0)}
    ELSE LengthAt(value(v, 0), d - 1)

\* C23: array_length returns for each row the element count at the requested
\* dimension, and null when the dimension is below 1, null or beyond the
\* nesting depth, or the row is null; for every row, empty rows and rows whose
\* first nested element is empty included.
C23_Original ==
    LengthCall =>
        \A i \in InRows :
            /\ result.kind = "ok"
            /\ ArrLen(result.col) = ArrLen(args[1])
            /\ LET d == DimensionOf(i)
               IN  IF \/ is_null(args[1], i)
                      \/ d = None
                      \/ d[1] < 1
                      \/ d[1] > list_ndims(args[1].dt)
                   THEN result.col.vals[i + 1] = None
                   ELSE result.col.vals[i + 1] \in LengthAt(value(args[1], i), d[1])

DimsCall == fn = "array_dims" /\ Returned /\ Len(args) = 1 /\ IsListArr(args[1])

RECURSIVE DimsOf(_)
\* The lengths met by descending into the first element of v, down to a value
\* that is no list or that is empty.
DimsOf(v) ==
    <<Some(ArrLen(v))>>
        \o (IF IsListArr(v) /\ ArrLen(v) > 0 THEN DimsOf(value(v, 0)) ELSE <<>>)

\* C24: array_dims returns for each row the lengths found by descending into
\* the first element, stopping at a non-list type or an empty span; an empty
\* or null row yields null; the call completes for every input, nested rows
\* whose first inner list is empty included.
C24_Original ==
    DimsCall =>
        \A i \in InRows :
            /\ result.kind = "ok"
            /\ ArrLen(result.col) = ArrLen(args[1])
            /\ IF is_null(args[1], i) \/ ArrLen(value(args[1], i)) = 0
               THEN is_null(result.col, i)
               ELSE /\ ~is_null(result.col, i)
                    /\ RowElems(result.col, i) = DimsOf(value(args[1], i))

NdimsCall == fn = "array_ndims" /\ Returned /\ Len(args) = 1

\* The nesting depth of the declared type of args[1]: 0 when it is no list.
DeclaredDepth == IF IsListArr(args[1]) THEN list_ndims(args[1].dt) ELSE 0

\* C25 as stated: array_ndims returns the nesting depth of the declared type
\* for every row, whatever the row holds, null and empty rows included, and 0
\* for every row of a non-list input.
C25_Original ==
    NdimsCall =>
        /\ result.kind = "ok"
        /\ ArrLen(result.col) = ArrLen(args[1])
        /\ \A i \in InRows : result.col.vals[i + 1] = Some(DeclaredDepth)

\* C25: array_ndims returns the nesting depth of the declared type for every
\* non-null row of a list column, whatever the row holds, and null for every
\* null row; it returns 0 for every row of a non-list input.
C25_DepthOfNonNullRows ==
    NdimsCall =>
        /\ result.kind = "ok"
        /\ ArrLen(result.col) = ArrLen(args[1])
        /\ \A i \in InRows :
               result.col.vals[i + 1] =
                   IF IsListArr(args[1]) /\ is_null(args[1], i) THEN None
                   ELSE Some(DeclaredDepth)

\* array_ndims has returned for a list column of depth 3 with a null row and
\* an empty row.
C25_Witness ==
    /\ NdimsCall
    /\ result.kind = "ok"
    /\ DeclaredDepth = 3
    /\ ArrLen(args[1]) = 2
    /\ is_null(args[1], 0)
    /\ ~is_null(args[1], 1)
    /\ ArrLen(value(args[1], 1)) = 0
    /\ result.col.vals = <<None, Some(3)>>

FlattenCall == fn = "flatten" /\ Returned /\ Len(args) = 1 /\ IsListArr(args[1])

RECURSIVE LeafType(_)
\* The innermost item type of a list type.
LeafType(dt) == IF IsListType(dt) THEN LeafType(Tail(dt)) ELSE dt

RECURSIVE LeavesOf(_, _)
RECURSIVE LeavesIn(_, _, _)
\* The leaf elements under element j of array a, in order.
LeavesOf(a, j) ==
    IF IsListArr(a) THEN LeavesIn(a.values, a.offsets[j + 1], a.offsets[j + 2])
    ELSE <<a.vals[j + 1]>>
\* The leaf elements under the elements from..to-1 of array a, one after another.
LeavesIn(a, from, to) ==
    IF from >= to THEN <<>> ELSE LeavesOf(a, from) \o LeavesIn(a, from + 1, to)

RECURSIVE ComposedOffset(_, _)
\* Offset o of list array a taken through the offsets of every level below.
ComposedOffset(a, o) ==
    IF IsListArr(a.values) THEN ComposedOffset(a.values, a.values.offsets[o + 1]) ELSE o

\* C26: flatten returns a single-level list column of as many rows as its
\* input, of the innermost leaf type, whose row i is the in-order concatenation
\* of the leaf elements under input row i; its offsets are the input's offsets
\* taken through the offsets of each inner level.
C26_FlattenConcatenatesLeaves ==
    FlattenCall =>
        /\ result.kind = "ok"
        /\ result.col.dt = ListOf(LeafType(args[1].dt))
        /\ ArrLen(result.col) = ArrLen(args[1])
        /\ \A i \in InRows : RowElems(result.col, i) = LeavesOf(args[1], i)
        /\ \A k \in 1..Len(args[1].offsets) :
               result.col.offsets[k] = ComposedOffset(args[1], args[1].offsets[k])

\* flatten has returned for a column of depth 3 whose row 0 holds two lists
\* of lists with three leaf elements between them.
C26_Witness ==
    /\ FlattenCall
    /\ result.kind = "ok"
    /\ list_ndims(args[1].dt) = 3
    /\ ArrLen(args[1]) = 2
    /\ ArrLen(value(args[1], 0)) = 2
    /\ ArrLen(value(value(args[1], 0), 0)) = 2
    /\ Len(RowElems(result.col, 0)) >= 3
    /\ ArrLen(value(args[1], 1)) > 0

\* A call of gen_range on one to three Int64 columns of one row count, with a
\* value in every slot.
RangeCall ==
    /\ fn = "gen_range"
    /\ Returned
    /\ Len(args) \in 1..3
    /\ \A k \in 1..Len(args) :
           /\ args[k].dt = Int64
           /\ ArrLen(args[k]) = ArrLen(args[1])
           /\ \A j \in 1..ArrLen(args[k]) : args[k].vals[j] # None

RangeStart(i) == IF Len(args) = 1 THEN 0 ELSE args[1].vals[i + 1][1]
RangeStop(i) == IF Len(args) = 1 THEN args[1].vals[i + 1][1] ELSE args[2].vals[i + 1][1]
RangeStep(i) == IF Len(args) = 3 THEN args[3].vals[i + 1][1] ELSE 1

Abs(x) == IF x < 0 THEN 0 - x ELSE x

\* The values start, start + step, start + 2 * step, ... on the near side of
\* stop: below it for a positive step, above it for a negative one.
RangeValues(start, stop, step) ==
    LET within(v) == IF step > 0 THEN v < stop ELSE v > stop
        count == Cardinality({k \in 0..Abs(stop - start) : within(start + k * step)})
    IN  [k \in 1..count |-> Some(start + (k - 1) * step)]

\* C27: with start 0 and step 1 when not given, gen_range returns for each row
\* the values start, start + step, ... below stop for a positive step and above
\* stop for a negative step, none when the range is empty; a step of 0 in any
\* row makes the call return an error and no column.
C27_Original ==
    RangeCall =>
        IF \E i \in InRows : RangeStep(i) = 0
        THEN result.kind = "execution"
        ELSE /\ result.kind = "ok"
             /\ ArrLen(result.col) = ArrLen(args[1])
             /\ \A i \in InRows :
                    RowElems(result.col, i) =
                        RangeValues(RangeStart(i), RangeStop(i), RangeStep(i))

\* A call of make_array on at least one column, the columns of one row count
\* and each Int64 or of the untyped-null type.
MakeArrayCall ==
    /\ fn = "make_array"
    /\ Returned
    /\ Len(args) >= 1
    /\ \A k \in 1..Len(args) :
           /\ ArrLen(args[k]) = ArrLen(args[1])
           /\ IsNullArr(args[k]) \/ args[k].dt = Int64

\* C28: make_array over k >= 1 columns of R rows returns R rows of exactly k
\* elements, element j of row i being row i of argument j, null when that
\* value is null or argument j is of the untyped-null type; no output row is
\* null; array_array with no argument is a planning error.
C28_Original ==
    /\ array_array(<<>>, Int64).kind = "plan"
    /\ MakeArrayCall =>
           /\ result.kind = "ok"
           /\ ArrLen(result.col) = ArrLen(args[1])
           /\ \A i \in InRows :
                  /\ ~is_null(result.col, i)
                  /\ RowElems(result.col, i) =
                         [j \in 1..Len(args) |->
                             IF IsNullArr(args[j]) THEN None ELSE args[j].vals[i + 1]]

CompareCall ==
    /\ fn = "compare_element_to_list"
    /\ Returned
    /\ Len(args) = 4
    /\ args[1].dt = args[2].dt
    /\ args[3] < ArrLen(args[2])

\* Element k of the list row equals the target, row args[3] of the element
\* column: both null, or both present with the same value.
EqualsTarget(k) ==
    IF is_null(args[1], k) \/ is_null(args[2], args[3])
    THEN is_null(args[1], k) /\ is_null(args[2], args[3])
    ELSE Elems(SliceArr(args[1], k, 1)) = Elems(SliceArr(args[2], args[3], 1))

\* C29: compare_element_to_list returns one non-null boolean per element of
\* the list row; with eq it is true exactly where the element equals the
\* target, a null element equal to a null target, and without eq it is the
\* negation; for flat element types and for list element types.
C29_Original ==
    CompareCall =>
        /\ result.kind = "ok"
        /\ Len(result.col) = ArrLen(args[1])
        /\ \A k \in 1..ArrLen(args[1]) :
               /\ result.col[k] # None
               /\ result.col[k][1] = (EqualsTarget(k - 1) = args[4])

AlignCall == fn = "align_array_dimensions" /\ Returned /\ Len(args) >= 1

\* The nesting depth of a column's type, by counting its list levels.
RECURSIVE DepthOf(_)
DepthOf(dt) == IF IsListType(dt) THEN 1 + DepthOf(Tail(dt)) ELSE 0

\* The greatest nesting depth among the arguments.
MaxDepth == CHOOSE D \in {DepthOf(args[k].dt) : k \in 1..Len(args)} :
                \A k \in 1..Len(args) : DepthOf(args[k].dt) <= D

RECURSIVE WrappedTimes(_, _, _)
\* out is column in wrapped n times: at each wrap every row is present, has
\* length 1 and holds the row of the same index of the column below.
WrappedTimes(out, in, n) ==
    IF n = 0 THEN out = in
    ELSE /\ IsListArr(out)
         /\ ArrLen(out) = ArrLen(in)
         /\ \A i \in 0..(ArrLen(out) - 1) :
                /\ ~is_null(out, i)
                /\ out.offsets[i + 1] = i
                /\ out.offsets[i + 2] = i + 1
         /\ WrappedTimes(out.values, in, n - 1)

\* C30: align_array_dimensions returns as many columns as it is given, in the
\* same order, each of the greatest depth D among them and of its own row
\* count; a column of depth d < D is wrapped D - d times, every row becoming
\* an outer row of length 1 that holds the row's value, and a column of depth
\* D is returned unchanged.
C30_AlignedToMaxDepth ==
    AlignCall =>
        /\ result.kind = "ok"
        /\ Len(result.col) = Len(args)
        /\ \A k \in 1..Len(args) :
               /\ DepthOf(result.col[k].dt) = MaxDepth
               /\ ArrLen(result.col[k]) = ArrLen(args[k])
               /\ WrappedTimes(result.col[k], args[k], MaxDepth - DepthOf(args[k].dt))

\* align_array_dimensions has returned for an Int64 column of two rows, one
\* null, next to a column of depth 2: the first is wrapped twice.
C30_Witness ==
    /\ AlignCall
    /\ result.kind = "ok"
    /\ Len(args) = 2
    /\ DepthOf(args[1].dt) = 0
    /\ DepthOf(args[2].dt) = 2
    /\ ArrLen(args[1]) = 2
    /\ is_null(args[1], 0) /\ ~is_null(args[1], 1)
    /\ DepthOf(result.col[1].dt) = 2
    /\ result.col[2] = args[2]
    /\ Elems(value(value(result.col[1], 1), 0)) = <<args[1].vals[2]>>
====
